---- MODULE Spec2Model ----
(***************************************************************************)
(* Verification model of the ISK-vs-VP Monte Carlo simulator:              *)
(*   src/src/simulation.ts        runSingleSimulation,                     *)
(*                                runMonteCarloSimulation,                 *)
(*                                calculateStatistics                      *)
(*   src/src/stores/calculator.ts findRepresentativeSimulation             *)
(*   src/unnamed/part_009         the simulation worker                    *)
(*                                                                         *)
(* Numbers.  A JavaScript number is modelled as an exact rational <<n, d>> *)
(* in lowest terms with d > 0, extended with the three IEEE-754 specials   *)
(* <<1, 0>> (+Infinity), <<-1, 0>> (-Infinity) and <<0, 0>> (NaN).         *)
(* Arithmetic is exact (no rounding) and zero is unsigned.                 *)
(* Math.sqrt(x) is modelled by the value [sq |-> x]: a root is compared,   *)
(* squared and divided through its square, which is exact.                 *)
(***************************************************************************)
EXTENDS Integers, Sequences, FiniteSets, TLC

----------------------------------------------------------------------------
(* Numbers *)

Abs(a) == IF a < 0 THEN -a ELSE a

Sgn(a) == IF a < 0 THEN -1 ELSE IF a > 0 THEN 1 ELSE 0

RECURSIVE Gcd(_, _)
Gcd(a, b) == IF b = 0 THEN a ELSE Gcd(b, a % b)

\* The rational n/d (d > 0) in lowest terms.
Norm(n, d) ==
  LET g == Gcd(Abs(n), d)
  IN  <<n \div g, d \div g>>

Num(a) == <<a, 1>>

Frac(a, b) == Norm(a, b)

Zero == <<0, 1>>

One == <<1, 1>>

PosInf == <<1, 0>>

NegInf == <<-1, 0>>

NaN == <<0, 0>>

IsFinite(x) == x[2] > 0

IsNaN(x) == x = NaN

\* x + y
NAdd(x, y) ==
  IF IsNaN(x) \/ IsNaN(y) THEN NaN
  ELSE IF IsFinite(x) /\ IsFinite(y)
    THEN LET g == Gcd(x[2], y[2])
         IN  Norm(x[1] * (y[2] \div g) + y[1] * (x[2] \div g), (x[2] \div g) * y[2])
  ELSE IF IsFinite(x) THEN y
  ELSE IF IsFinite(y) THEN x
  ELSE IF x = y THEN x ELSE NaN

NNeg(x) == <<-x[1], x[2]>>

\* x - y
NSub(x, y) == NAdd(x, NNeg(y))

\* x * y
NMul(x, y) ==
  IF IsNaN(x) \/ IsNaN(y) THEN NaN
  ELSE IF IsFinite(x) /\ IsFinite(y)
    THEN LET g == Gcd(Abs(x[1]), y[2])
             h == Gcd(Abs(y[1]), x[2])
         IN  Norm((x[1] \div g) * (y[1] \div h), (x[2] \div h) * (y[2] \div g))
  ELSE <<Sgn(x[1]) * Sgn(y[1]), 0>>

\* x / y
NDiv(x, y) ==
  IF IsNaN(x) \/ IsNaN(y) THEN NaN
  ELSE IF IsFinite(y) /\ y[1] # 0
    THEN IF IsFinite(x)
         THEN LET g == Gcd(Abs(x[1]), Abs(y[1]))
                  h == Gcd(y[2], x[2])
              IN  Norm((x[1] \div g) * (y[2] \div h) * Sgn(y[1]),
                       (x[2] \div h) * (Abs(y[1]) \div g))
         ELSE <<Sgn(x[1]) * Sgn(y[1]), 0>>
  ELSE IF IsFinite(y)
    THEN <<Sgn(x[1]), 0>>
  ELSE IF IsFinite(x) THEN Zero ELSE NaN

\* x < y (false when either side is NaN)
NLt(x, y) ==
  IF IsNaN(x) \/ IsNaN(y) THEN FALSE
  ELSE IF IsFinite(x) /\ IsFinite(y)
    THEN LET g == Gcd(x[2], y[2])
         IN  x[1] * (y[2] \div g) < y[1] * (x[2] \div g)
  ELSE IF IsFinite(x) THEN y = PosInf
  ELSE IF IsFinite(y) THEN x = NegInf
  ELSE x = NegInf /\ y = PosInf

\* x <= y (false when either side is NaN)
NLe(x, y) == ~IsNaN(x) /\ ~IsNaN(y) /\ ~NLt(y, x)

\* x > y
NGt(x, y) == NLt(y, x)

\* Math.max(x, y)
MathMax(x, y) ==
  IF IsNaN(x) \/ IsNaN(y) THEN NaN ELSE IF NLt(x, y) THEN y ELSE x

\* Math.min(x, y)
MathMin(x, y) ==
  IF IsNaN(x) \/ IsNaN(y) THEN NaN ELSE IF NLt(y, x) THEN y ELSE x

\* Math.sqrt(x), kept as the root of x
MathSqrt(x) == [sq |-> x]

\* Math.pow(r, 2) of a root r
RootSquared(r) == r.sq

\* undefined, and the ?? operator
Undefined == <<>>

Coalesce(x, dflt) == IF x = Undefined THEN dflt ELSE x

\* JavaScript truthiness of a number or undefined
Truthy(x) == x # Undefined /\ ~IsNaN(x) /\ x # Zero

----------------------------------------------------------------------------
(* Bounds of the model *)

\* largest horizon (params.yearsLater) explored
MaxYears == 2

\* largest params.simulationCount explored
MaxSimulationCount == 3

\* The largest simulationCount of the long runs, where progress is reported
\* several times
MaxLongRun == 201

\* the most calls of runSimulation in one behaviour
MaxCalls == 2

Calls == 1..MaxCalls

----------------------------------------------------------------------------
(* Program constants *)

\* const ISK_TAX_RATE_MIN = 0.0125
ISK_TAX_RATE_MIN == Frac(125, 10000)

\* the upper clamp 1.0 of the ISK basis rate
ISK_TAX_RATE_MAX == One

\* progress is reported every 100 trajectories
ProgressEvery == 100

\* history store: maxRecords
maxRecords == 100

----------------------------------------------------------------------------
(* The random source *)

\* Standard normal deviates z0 = sqrt(-2 ln u1) cos(2 pi u2) that the
\* Box-Muller transform returns: outliers on both sides (u1 > 0, so z0 is
\* finite; with 53-bit uniforms |z0| stays below 8.6).
ZValues == {Num(-4), Num(8)}

\* randomNormal(mean, stdDev): the values one call can return
RandomNormal(mean, stdDev) == {NAdd(mean, NMul(z0, stdDev)) : z0 \in ZValues}

----------------------------------------------------------------------------
(* Parameters *)

ScenarioISK(bwr, pwr, ply, cgt, itr, its) ==
  [name |-> "ISK", balanceWithdrawalRate |-> bwr, profitWithdrawalRate |-> pwr,
   profitLookbackYears |-> ply, capitalGainsTax |-> cgt,
   iskTaxRate |-> itr, iskTaxRateStdDev |-> its, isISK |-> TRUE]

ScenarioVP(bwr, pwr, ply, cgt) ==
  [name |-> "VP", balanceWithdrawalRate |-> bwr, profitWithdrawalRate |-> pwr,
   profitLookbackYears |-> ply, capitalGainsTax |-> cgt,
   iskTaxRate |-> Undefined, iskTaxRateStdDev |-> Undefined, isISK |-> FALSE]

\* The scenario configurations explored.  Rates are binary fractions near
\* the store's defaults, which keeps the exact arithmetic small; the ISK
\* basis rate is taken above and below ISK_TAX_RATE_MIN, its volatility
\* absent, zero and large; the profit withdrawal rate zero, positive and
\* negative.
IskConfigs ==
  { ScenarioISK(Zero, Zero, 5, Frac(1, 4), Frac(1, 32), Zero),
    ScenarioISK(Zero, Zero, 5, Frac(1, 4), Frac(1, 128), Undefined),
    ScenarioISK(Frac(1, 8), Frac(1, 2), 1, Frac(1, 4), Frac(1, 32), Frac(1, 2)),
    ScenarioISK(Frac(1, 8), Frac(1, 2), 2, Frac(1, 4), Frac(1, 128), Frac(1, 2)) }

VpConfigs ==
  { ScenarioVP(Zero, Zero, 5, Frac(1, 4)),
    ScenarioVP(Frac(1, 8), Frac(1, 2), 1, Frac(1, 4)),
    ScenarioVP(Frac(1, 8), Frac(1, 2), 2, Frac(1, 4)),
    ScenarioVP(Frac(1, 8), Frac(-1, 2), 1, Frac(1, 4)) }

Seeds == {"seedA", "seedB"}

InputParameters(ic, yl, sc, dev, dsd, isd, isk, vp, sd) ==
  [initialCapital |-> ic, startYear |-> 45, yearsLater |-> yl, simulationCount |-> sc,
   development |-> dev, developmentStdDev |-> dsd,
   inflationRate |-> Zero, inflationStdDev |-> isd,
   scenarios |-> <<isk, vp>>, seed |-> sd]

ScenarioNames(p) == {p.scenarios[k].name : k \in DOMAIN p.scenarios}

----------------------------------------------------------------------------
(* runSingleSimulation: the per-scenario, per-year step *)

\* StateKey with every scenario's state under one key
StateKeyShared(scenario) == "scenario"

\* scenarioStates[scenario.name]: the key under which a scenario's state lives
StateKey(scenario) == scenario.name

\* ClampTaxRate without the Math.max(ISK_TAX_RATE_MIN, ...) floor
ClampTaxRateNoFloor(currentTaxRate, taxRateChange) ==
  MathMin(ISK_TAX_RATE_MAX, NAdd(currentTaxRate, taxRateChange))

\* state.currentTaxRate after the random walk step
ClampTaxRate(currentTaxRate, taxRateChange) ==
  MathMax(ISK_TAX_RATE_MIN, MathMin(ISK_TAX_RATE_MAX, NAdd(currentTaxRate, taxRateChange)))

\* the draws of the ISK basis-rate step: one randomNormal(0, stdDev) when the
\* scenario is ISK with a truthy iskTaxRateStdDev, no draw (Undefined) otherwise
TaxRateChanges(scenario) ==
  IF scenario.isISK /\ Truthy(scenario.iskTaxRateStdDev)
  THEN RandomNormal(Zero, scenario.iskTaxRateStdDev)
  ELSE {Undefined}

\* Math.min(a, b) on loop counters
MinInt(a, b) == IF a < b THEN a ELSE b

\* ProfitWithdrawal without the Math.max(0, ...) floor
ProfitWithdrawalUnfloored(scenario, state, i) ==
  IF i > 0 /\ NGt(scenario.profitWithdrawalRate, Zero)
  THEN LET lookbackYears == MinInt(scenario.profitLookbackYears, Len(state.yearlyAmounts) - 1)
       IN  IF lookbackYears > 0
           THEN LET oldAmount == state.yearlyAmounts[Len(state.yearlyAmounts) - lookbackYears]
                    totalProfit == NSub(state.amount, oldAmount)
                    averageAnnualProfit == NDiv(totalProfit, Num(lookbackYears))
                IN  NMul(averageAnnualProfit, scenario.profitWithdrawalRate)
           ELSE Zero
  ELSE Zero

\* ProfitWithdrawal with the profit always measured from the initial capital
ProfitWithdrawalFromStart(scenario, state, i) ==
  IF i > 0 /\ NGt(scenario.profitWithdrawalRate, Zero)
  THEN LET lookbackYears == MinInt(scenario.profitLookbackYears, Len(state.yearlyAmounts) - 1)
       IN  IF lookbackYears > 0
           THEN LET oldAmount == state.yearlyAmounts[1]
                    totalProfit == NSub(state.amount, oldAmount)
                    averageAnnualProfit == NDiv(totalProfit, Num(lookbackYears))
                IN  MathMax(Zero, NMul(averageAnnualProfit, scenario.profitWithdrawalRate))
           ELSE Zero
  ELSE Zero

\* profitWithdrawal of the year with index i
ProfitWithdrawal(scenario, state, i) ==
  IF i > 0 /\ NGt(scenario.profitWithdrawalRate, Zero)
  THEN LET lookbackYears == MinInt(scenario.profitLookbackYears, Len(state.yearlyAmounts) - 1)
       IN  IF lookbackYears > 0
           THEN LET oldAmount == state.yearlyAmounts[Len(state.yearlyAmounts) - lookbackYears]
                    totalProfit == NSub(state.amount, oldAmount)
                    averageAnnualProfit == NDiv(totalProfit, Num(lookbackYears))
                IN  MathMax(Zero, NMul(averageAnnualProfit, scenario.profitWithdrawalRate))
           ELSE Zero
  ELSE Zero

\* LiquidValue with the capital gain taken as the whole balance
LiquidValueTaxingBalance(scenario, amount, initialCapital) ==
  IF scenario.isISK
  THEN amount
  ELSE NSub(amount, NMul(amount, scenario.capitalGainsTax))

\* LiquidValue with the unrealized gain floored at 0
LiquidValueFloored(scenario, amount, initialCapital) ==
  IF scenario.isISK
  THEN amount
  ELSE LET capitalGain == NSub(amount, initialCapital)
       IN  NSub(amount, NMul(MathMax(Zero, capitalGain), scenario.capitalGainsTax))

LiquidValue(scenario, amount, initialCapital) ==
  IF scenario.isISK
  THEN amount
  ELSE LET capitalGain == NSub(amount, initialCapital)
       IN  NSub(amount, NMul(capitalGain, scenario.capitalGainsTax))

\* Tax with the ISK tax taken as the whole notional yield
TaxOnNotionalYield(scenario, amount, currentTaxRate, withdrawn) ==
  IF scenario.isISK
  THEN NMul(amount, currentTaxRate)
  ELSE NMul(withdrawn, scenario.capitalGainsTax)

Tax(scenario, amount, currentTaxRate, withdrawn) ==
  IF scenario.isISK
  THEN NMul(NMul(amount, currentTaxRate), scenario.capitalGainsTax)
  ELSE NMul(withdrawn, scenario.capitalGainsTax)

\* NextAmount without the Math.max(0, ...) clamp
NextAmountUnclamped(scenario, amount, dev, withdrawn, tax) ==
  IF scenario.isISK
  THEN NSub(NSub(NMul(amount, NAdd(One, dev)), withdrawn), tax)
  ELSE NSub(NMul(amount, NAdd(One, dev)), withdrawn)

\* NextAmount with the tax deducted from the balance in both tax models
NextAmountDeductingTax(scenario, amount, dev, withdrawn, tax) ==
  MathMax(Zero, NSub(NSub(NMul(amount, NAdd(One, dev)), withdrawn), tax))

NextAmount(scenario, amount, dev, withdrawn, tax) ==
  IF scenario.isISK
  THEN MathMax(Zero, NSub(NSub(NMul(amount, NAdd(One, dev)), withdrawn), tax))
  ELSE MathMax(Zero, NSub(NMul(amount, NAdd(One, dev)), withdrawn))

\* One pass of the scenario loop body: the new state and the yearly record.
EvolveScenario(scenario, state, i, dev, infl, cumInfl, initialCapital, taxRateChange) ==
  LET currentTaxRate ==
        IF taxRateChange = Undefined THEN state.currentTaxRate
        ELSE ClampTaxRate(state.currentTaxRate, taxRateChange)
      balanceWithdrawal == NMul(state.amount, scenario.balanceWithdrawalRate)
      profitWithdrawal == ProfitWithdrawal(scenario, state, i)
      withdrawn == NAdd(balanceWithdrawal, profitWithdrawal)
      withdrawalRate == IF NGt(state.amount, Zero) THEN NDiv(withdrawn, state.amount) ELSE Zero
      liquidValue == LiquidValue(scenario, state.amount, initialCapital)
      tax == Tax(scenario, state.amount, currentTaxRate, withdrawn)
      cumulativePaidTax == NAdd(state.cumulativePaidTax, tax)
      taxationDegree == IF NGt(liquidValue, Zero) THEN NDiv(cumulativePaidTax, liquidValue) ELSE Zero
      withdrawnReal == NDiv(withdrawn, cumInfl)
      amount == NextAmount(scenario, state.amount, dev, withdrawn, tax)
  IN  [state |->
         [amount |-> amount,
          cumulativePaidTax |-> cumulativePaidTax,
          accumulatedRealWithdrawal |-> NAdd(state.accumulatedRealWithdrawal, withdrawnReal),
          currentTaxRate |-> currentTaxRate,
          yearlyAmounts |-> Append(state.yearlyAmounts, amount)],
       data |->
         [amount |-> state.amount, withdrawn |-> withdrawn, tax |-> tax,
          paidTax |-> cumulativePaidTax, liquidValue |-> liquidValue,
          taxationDegree |-> taxationDegree, withdrawnReal |-> withdrawnReal,
          withdrawalRate |-> withdrawalRate, taxRate |-> currentTaxRate,
          development |-> dev, inflationRate |-> infl]]

\* The state of a scenario when a trajectory starts
InitialScenarioState(scenario, initialCapital) ==
  [amount |-> initialCapital,
   cumulativePaidTax |-> Zero,
   accumulatedRealWithdrawal |-> Zero,
   currentTaxRate |-> Coalesce(scenario.iskTaxRate, Zero),
   yearlyAmounts |-> <<initialCapital>>]

RECURSIVE SumSeq(_)
\* reduce((a, b) => a + b, 0) over a sequence of numbers
SumSeq(s) == IF s = <<>> THEN Zero ELSE NAdd(SumSeq(SubSeq(s, 1, Len(s) - 1)), s[Len(s)])

\* ScenarioSummary reading the first yearly record instead of the last
ScenarioSummaryOfFirstYear(scenario, yd, firstYear, state, initialCapital) ==
  LET lastYearData == yd[1].scenarios[scenario.name]
      averageTaxRate ==
        NDiv(SumSeq([k \in DOMAIN yd |-> yd[k].scenarios[scenario.name].taxRate]), Num(Len(yd)))
  IN  [liquidValue |-> lastYearData.liquidValue,
       firstYearLiquidValue |-> initialCapital,
       paidTax |-> lastYearData.paidTax,
       taxationDegree |-> lastYearData.taxationDegree,
       realWithdrawal |-> lastYearData.withdrawnReal,
       firstYearWithdrawal |-> firstYear[scenario.name].withdrawnReal,
       accumulatedRealWithdrawal |-> state.accumulatedRealWithdrawal,
       averageTaxRate |-> averageTaxRate]

\* The summary of one scenario, built after the year loop
ScenarioSummary(scenario, yd, firstYear, state, initialCapital) ==
  LET lastYearData == yd[Len(yd)].scenarios[scenario.name]
      averageTaxRate ==
        NDiv(SumSeq([k \in DOMAIN yd |-> yd[k].scenarios[scenario.name].taxRate]), Num(Len(yd)))
  IN  [liquidValue |-> lastYearData.liquidValue,
       firstYearLiquidValue |-> initialCapital,
       paidTax |-> lastYearData.paidTax,
       taxationDegree |-> lastYearData.taxationDegree,
       realWithdrawal |-> lastYearData.withdrawnReal,
       firstYearWithdrawal |-> firstYear[scenario.name].withdrawnReal,
       accumulatedRealWithdrawal |-> state.accumulatedRealWithdrawal,
       averageTaxRate |-> averageTaxRate]

\* The Summary of a trajectory
BuildSummary(p, yd, firstYear, states) ==
  [scenarios |->
     [nm \in ScenarioNames(p) |->
        LET scenario == CHOOSE sc \in {p.scenarios[k] : k \in DOMAIN p.scenarios} : sc.name = nm
        IN  ScenarioSummary(scenario, yd, firstYear, states[StateKey(scenario)], p.initialCapital)],
   averageInflationRate |->
     NDiv(SumSeq([k \in DOMAIN yd |-> yd[k].inflationRate]), Num(Len(yd))),
   averageDevelopment |->
     NDiv(SumSeq([k \in DOMAIN yd |-> yd[k].development]), Num(Len(yd)))]

----------------------------------------------------------------------------
(* calculateStatistics *)

RECURSIVE InsertDescending(_, _)
\* Insert with the comparator reversed ((a, b) => b - a)
InsertDescending(v, s) ==
  IF s = <<>> THEN <<v>>
  ELSE IF NGt(v, Head(s)) THEN <<v>> \o s
  ELSE <<Head(s)>> \o InsertDescending(v, Tail(s))

RECURSIVE Insert(_, _)
\* v placed into the ascending sequence s (comparator (a, b) => a - b)
Insert(v, s) ==
  IF s = <<>> THEN <<v>>
  ELSE IF NLt(v, Head(s)) THEN <<v>> \o s
  ELSE <<Head(s)>> \o Insert(v, Tail(s))

\* SortAsc without the sort: the values in the order given
SortAscUnsorted(s) == s

RECURSIVE SortAsc(_)
\* values.slice().sort((a, b) => a - b)
SortAsc(s) == IF s = <<>> THEN <<>> ELSE Insert(s[Len(s)], SortAsc(SubSeq(s, 1, Len(s) - 1)))

\* FloorTimes with Math.ceil in place of Math.floor
FloorTimesRoundUp(n, pct) == (n * pct + 99) \div 100

\* Math.floor(n * p) for p = pct / 100
FloorTimes(n, pct) == (n * pct) \div 100

\* sorted[idx] ?? 0, idx counted from 0
AtOrZero(sorted, idx) == IF idx + 1 \in DOMAIN sorted THEN sorted[idx + 1] ELSE Zero

\* Math.pow(val - mean, 2)
SquaredDeviation(val, mean) == NMul(NSub(val, mean), NSub(val, mean))

calculateStats(values) ==
  LET sorted == SortAsc(values)
      n == Len(sorted)
      mean == NDiv(SumSeq(sorted), Num(n))
  IN  [mean |-> mean,
       stdDev |->
         MathSqrt(NDiv(SumSeq([k \in DOMAIN sorted |-> SquaredDeviation(sorted[k], mean)]), Num(n))),
       percentile5 |-> AtOrZero(sorted, FloorTimes(n, 5)),
       percentile25 |-> AtOrZero(sorted, FloorTimes(n, 25)),
       median |-> AtOrZero(sorted, FloorTimes(n, 50)),
       percentile75 |-> AtOrZero(sorted, FloorTimes(n, 75)),
       percentile95 |-> AtOrZero(sorted, FloorTimes(n, 95))]

\* the fields of ScenarioSummary that are aggregated
SummaryFields ==
  {"liquidValue", "firstYearLiquidValue", "paidTax", "taxationDegree", "realWithdrawal",
   "firstYearWithdrawal", "accumulatedRealWithdrawal", "averageTaxRate"}

\* the statistics that calculateStats returns
StatKinds ==
  {"mean", "stdDev", "percentile5", "percentile25", "median", "percentile75", "percentile95"}

calculateStatistics(res) ==
  LET summaries == [k \in DOMAIN res |-> res[k].summary]
      scenarioNames == IF summaries = <<>> THEN {} ELSE DOMAIN summaries[1].scenarios
      scenarioStats ==
        [nm \in scenarioNames |->
           [f \in SummaryFields |->
              calculateStats([k \in DOMAIN summaries |-> summaries[k].scenarios[nm][f]])]]
      avgInflationStats ==
        calculateStats([k \in DOMAIN summaries |-> summaries[k].averageInflationRate])
      avgDevelopmentStats ==
        calculateStats([k \in DOMAIN summaries |-> summaries[k].averageDevelopment])
  IN  [kind \in StatKinds |->
         [scenarios |-> [nm \in scenarioNames |-> [f \in SummaryFields |-> scenarioStats[nm][f][kind]]],
          averageInflationRate |-> avgInflationStats[kind],
          averageDevelopment |-> avgDevelopmentStats[kind]]]

----------------------------------------------------------------------------
(* findRepresentativeSimulation *)

\* null, and a number held in a nullable variable
Null == <<>>

Some(v) == <<v>>

\* the metrics compared, each summed across the scenarios
MetricFields == {"liquidValue", "realWithdrawal", "accumulatedRealWithdrawal", "maxDrawdown"}

\* scenarios[name]?.[field] ?? 0
FieldOrZero(scenarios, nm, f) ==
  IF nm \in DOMAIN scenarios /\ f \in DOMAIN scenarios[nm] THEN scenarios[nm][f] ELSE Zero

\* Math.pow(stats.stdDev.scenarios?.[name]?.[field] ?? 0, 2)
SquaredStdDevOrZero(scenarios, nm, f) ==
  IF nm \in DOMAIN scenarios /\ f \in DOMAIN scenarios[nm]
  THEN RootSquared(scenarios[nm][f]) ELSE Zero

RECURSIVE SumOver(_, _)
\* names.reduce((sum, name) => sum + g[name], 0)
SumOver(names, g) ==
  IF names = {} THEN Zero
  ELSE LET nm == CHOOSE e \in names : TRUE
       IN  NAdd(SumOver(names \ {nm}, g), g[nm])

\* a trajectory's value on a metric
MetricValue(result, scenarioNames, f) ==
  SumOver(scenarioNames, [nm \in scenarioNames |-> FieldOrZero(result.summary.scenarios, nm, f)])

\* the statistics' median on a metric
MetricMedian(stats, scenarioNames, f) ==
  SumOver(scenarioNames, [nm \in scenarioNames |-> FieldOrZero(stats.median.scenarios, nm, f)])

\* the metric's standard deviation: the root of the summed squares
MetricStdDev(stats, scenarioNames, f) ==
  MathSqrt(SumOver(scenarioNames,
                   [nm \in scenarioNames |-> SquaredStdDevOrZero(stats.stdDev.scenarios, nm, f)]))

\* normalized * normalized, normalized = (value - median) / (stdDev > 0 ? stdDev : 1)
NormalizedSquared(value, median, stdDev) ==
  LET diff == NSub(value, median)
  IN  IF NGt(RootSquared(stdDev), Zero)
      THEN NDiv(NMul(diff, diff), RootSquared(stdDev))
      ELSE NMul(diff, diff)

\* the distance of one trajectory from the median
Distance(result, stats, scenarioNames) ==
  MathSqrt(SumOver(MetricFields,
                   [f \in MetricFields |->
                      NormalizedSquared(MetricValue(result, scenarioNames, f),
                                        MetricMedian(stats, scenarioNames, f),
                                        MetricStdDev(stats, scenarioNames, f))]))

\* CloserThan with the comparison reversed (distance > minDistance)
CloserThanReversed(distance, minDistance) == NGt(RootSquared(distance), RootSquared(minDistance))

\* distance < minDistance
CloserThan(distance, minDistance) == NLt(RootSquared(distance), RootSquared(minDistance))

RECURSIVE DistanceLoop(_, _, _, _, _, _)
\* simResults.forEach((result, idx) => ...) from idx on, idx counted from 0
DistanceLoop(simResults, stats, scenarioNames, idx, minDistance, representativeId) ==
  IF idx >= Len(simResults) THEN representativeId
  ELSE LET distance == Distance(simResults[idx + 1], stats, scenarioNames)
       IN  IF CloserThan(distance, minDistance)
           THEN DistanceLoop(simResults, stats, scenarioNames, idx + 1, distance, Some(idx))
           ELSE DistanceLoop(simResults, stats, scenarioNames, idx + 1, minDistance, representativeId)

\* findRepresentativeSimulation without the check of scenarioNames.length
findRepresentativeSimulationUnguarded(simResults, stats) ==
  IF simResults = <<>> THEN Null
  ELSE DistanceLoop(simResults, stats, DOMAIN stats.median.scenarios, 0, MathSqrt(PosInf), Null)

findRepresentativeSimulation(simResults, stats) ==
  IF simResults = <<>> THEN Null
  ELSE LET scenarioNames == DOMAIN stats.median.scenarios
       IN  IF scenarioNames = {} THEN Null
           ELSE DistanceLoop(simResults, stats, scenarioNames, 0, MathSqrt(PosInf), Null)

----------------------------------------------------------------------------
(* The state *)

VARIABLES
  params,                     \* the InputParameters posted to the worker
  runNo,                      \* 1 for the first run, 2 for a second run
  firstRun,                   \* the first run's parameters, results and draws
  pc,                         \* position in the program
  simI,                       \* runMonteCarloSimulation: loop index i
  results,                    \* runMonteCarloSimulation: results
  progressLog,                \* the values passed to onProgress, in order
  i,                          \* runSingleSimulation: year index
  sIdx,                       \* runSingleSimulation: position in params.scenarios
  scenarioStates,             \* runSingleSimulation: scenarioStates
  cumulativeInflation,        \* runSingleSimulation: cumulativeInflation
  firstYearData,              \* runSingleSimulation: firstYearData
  yearlyData,                 \* runSingleSimulation: yearlyData
  scenarioYearlyData,         \* the year's scenarioYearlyData
  inflationRate,              \* the year's shared inflation draw
  development,                \* the year's shared development draw
  drawLog,                    \* the values randomNormal returned in this run
  statistics,                 \* store: statistics
  representativeSimulationId, \* store: representativeSimulationId
  cancelRequested             \* the caller's wish to stop the run early, and when it arose

\* The calculator store's run state, for calls of runSimulation that may overlap
VARIABLES
  isRunning,                  \* store: isRunning
  progress,                   \* store: progress
  seed,                       \* store: seed, undefined or <<the string>>
  calls,                      \* per call of runSimulation: position, worker, messages in flight
  resultsFrom                 \* the call whose results the store shows

\* The history store
VARIABLES
  records,                    \* history store: records
  now,                        \* the value Date.now() returned last
  added,                      \* the number of addRecord calls made so far
  historyOps                  \* the number of history operations the user has made

\* The lazy chart component
VARIABLES
  lazyChart,                  \* the component's refs, the browser's pending callbacks, the last render
  container,                  \* <<clientWidth, clientHeight>> of the container element
  chartEvents                 \* the number of events the component has seen

\* The portfolio editor of InputParameters.vue
VARIABLES
  portfolio,                  \* store: portfolio (assets, correlationMatrix)
  selectedAssetIndex,         \* InputParameters.vue: selectedAssetIndex
  lastOp,                     \* the portfolio operation called last
  raised                      \* whether that operation raised an error

runVars == <<isRunning, progress, seed, calls, resultsFrom>>

portfolioVars == <<portfolio, selectedAssetIndex, lastOp, raised>>

chartVars == <<lazyChart, container, chartEvents>>

historyVars == <<records, now, added, historyOps>>

uiVars == <<runVars, historyVars, chartVars, portfolioVars>>

simVars ==
  <<params, runNo, firstRun, pc, simI, results, progressLog, i, sIdx, scenarioStates,
    cumulativeInflation, firstYearData, yearlyData, scenarioYearlyData, inflationRate,
    development, drawLog, statistics, representativeSimulationId, cancelRequested>>

vars == <<simVars, uiVars>>

\* A call of runSimulation that has not been made
IdleCall == [pc |-> "idle", worker |-> "none", outcome |-> "none", params |-> <<>>, i |-> 0, inbox |-> <<>>]

\* No call of runSimulation has been made
RunIdle ==
  /\ isRunning = FALSE
  /\ progress = Zero
  /\ seed = Undefined
  /\ calls = [c \in Calls |-> IdleCall]
  /\ resultsFrom = <<>>

\* The lazy chart component before it is mounted, in a container of no size.
\* frames and timers are the requestAnimationFrame and setTimeout callbacks
\* that the browser has yet to run, handles the last handle it gave out;
\* rendered and renders describe the calls of renderChart.
UnmountedChart ==
  [mounted |-> FALSE, isVisible |-> FALSE, lastSize |-> <<0, 0>>, dataDirty |-> TRUE,
   rafId |-> <<>>, timeoutId |-> <<>>, frames |-> {}, timers |-> {}, handles |-> 0,
   rendered |-> <<>>, renders |-> 0]

\* No chart is shown
ChartIdle ==
  /\ lazyChart = UnmountedChart
  /\ container = <<0, 0>>
  /\ chartEvents = 0

\* an asset under the name the number stands for: 0 for 'Global Equity',
\* k for `Fond ${k}`
Asset(name, weight, expectedReturn, volatility) ==
  [name |-> name, weight |-> weight, expectedReturn |-> expectedReturn,
   volatility |-> volatility]

\* The store's default portfolio, untouched
PortfolioIdle ==
  /\ portfolio = [assets |-> <<Asset(0, One, Frac(1299, 10000), Frac(202, 1000))>>,
                  correlationMatrix |-> <<>>]
  /\ selectedAssetIndex = 0
  /\ lastOp = "none"
  /\ raised = FALSE

\* The history is empty
HistoryEmpty ==
  /\ records = <<>>
  /\ now = 0
  /\ added = 0
  /\ historyOps = 0

trajectoryVars ==
  <<i, sIdx, scenarioStates, cumulativeInflation, firstYearData, yearlyData,
    scenarioYearlyData, inflationRate, development>>

storeVars == <<statistics, representativeSimulationId>>

\* No trajectory is being computed: runSingleSimulation's locals do not exist
NoTrajectory ==
  /\ i = 0
  /\ sIdx = 0
  /\ scenarioStates = <<>>
  /\ cumulativeInflation = One
  /\ firstYearData = <<>>
  /\ yearlyData = <<>>
  /\ scenarioYearlyData = <<>>
  /\ inflationRate = Zero
  /\ development = Zero

\* runSingleSimulation returns: its locals are gone
EndTrajectory ==
  /\ i' = 0
  /\ sIdx' = 0
  /\ scenarioStates' = <<>>
  /\ cumulativeInflation' = One
  /\ firstYearData' = <<>>
  /\ yearlyData' = <<>>
  /\ scenarioYearlyData' = <<>>
  /\ inflationRate' = Zero
  /\ development' = Zero

\* The worker has received {params} and enters runMonteCarloSimulation
WorkerStart(p) ==
  /\ params = p
  /\ pc = "mc"
  /\ simI = 0
  /\ results = <<>>
  /\ progressLog = <<>>
  /\ drawLog = {}
  /\ NoTrajectory

InitSim(P) ==
  /\ \E p \in P : WorkerStart(p)
  /\ runNo = 1
  /\ firstRun = Null
  /\ statistics = Null
  /\ representativeSimulationId = Null
  /\ cancelRequested = Null

InitWith(P) ==
  /\ InitSim(P)
  /\ RunIdle
  /\ HistoryEmpty
  /\ ChartIdle
  /\ PortfolioIdle

----------------------------------------------------------------------------
(* runSingleSimulation *)

\* the scenario whose state ends up under a key: the last one written
LastWithKey(p, key) ==
  LET k == CHOOSE a \in DOMAIN p.scenarios :
             /\ StateKey(p.scenarios[a]) = key
             /\ \A b \in DOMAIN p.scenarios : StateKey(p.scenarios[b]) = key => b <= a
  IN  p.scenarios[k]

\* for (let i = 0; i < params.simulationCount; i++): enter runSingleSimulation
StartTrajectory ==
  /\ pc = "mc"
  /\ simI < params.simulationCount
  /\ scenarioStates' =
       [key \in {StateKey(params.scenarios[k]) : k \in DOMAIN params.scenarios} |->
          InitialScenarioState(LastWithKey(params, key), params.initialCapital)]
  /\ cumulativeInflation' = One
  /\ firstYearData' = <<>>
  /\ yearlyData' = <<>>
  /\ i' = 0
  /\ pc' = "year"
  /\ UNCHANGED <<uiVars, cancelRequested, params, runNo, firstRun, simI, results, progressLog, sIdx,
                 scenarioYearlyData, inflationRate, development, drawLog, storeVars>>

Draw(site, value) == [sim |-> simI, year |-> i, site |-> site, value |-> value]

\* the head of the year loop: the year's shared draws
DrawYear ==
  /\ pc = "year"
  /\ i < params.yearsLater
  /\ \E infl \in RandomNormal(params.inflationRate, params.inflationStdDev),
        dev \in RandomNormal(params.development, params.developmentStdDev) :
       /\ inflationRate' = infl
       /\ development' = dev
       /\ cumulativeInflation' = NMul(cumulativeInflation, NAdd(One, infl))
       /\ drawLog' = drawLog \cup {Draw("inflation", infl), Draw("development", dev)}
  /\ scenarioYearlyData' = <<>>
  /\ sIdx' = 1
  /\ pc' = "scenario"
  /\ UNCHANGED <<uiVars, cancelRequested, params, runNo, firstRun, simI, results, progressLog, i, scenarioStates,
                 firstYearData, yearlyData, storeVars>>

\* one pass of: for (const scenario of params.scenarios)
ProcessScenario ==
  /\ pc = "scenario"
  /\ sIdx <= Len(params.scenarios)
  /\ LET scenario == params.scenarios[sIdx]
         key == StateKey(scenario)
     IN  \E taxRateChange \in TaxRateChanges(scenario) :
           LET r == EvolveScenario(scenario, scenarioStates[key], i, development, inflationRate,
                                   cumulativeInflation, params.initialCapital, taxRateChange)
           IN  /\ scenarioStates' = [scenarioStates EXCEPT ![key] = r.state]
               /\ firstYearData' =
                    IF i = 0
                    THEN (scenario.name :> [withdrawnReal |-> r.data.withdrawnReal]) @@ firstYearData
                    ELSE firstYearData
               /\ scenarioYearlyData' = (scenario.name :> r.data) @@ scenarioYearlyData
               /\ drawLog' =
                    IF taxRateChange = Undefined THEN drawLog
                    ELSE drawLog \cup {Draw(scenario.name, taxRateChange)}
  /\ sIdx' = sIdx + 1
  /\ UNCHANGED <<uiVars, cancelRequested, params, runNo, firstRun, pc, simI, results, progressLog, i,
                 cumulativeInflation, yearlyData, inflationRate, development, storeVars>>

\* yearlyData.push({...}) and i++
RecordYear ==
  /\ pc = "scenario"
  /\ sIdx > Len(params.scenarios)
  /\ yearlyData' =
       Append(yearlyData,
              [year |-> params.startYear + i, development |-> development,
               inflationRate |-> inflationRate, inflation |-> cumulativeInflation,
               scenarios |-> scenarioYearlyData])
  /\ i' = i + 1
  /\ sIdx' = 0
  /\ scenarioYearlyData' = <<>>
  /\ inflationRate' = Zero
  /\ development' = Zero
  /\ pc' = "year"
  /\ UNCHANGED <<uiVars, cancelRequested, params, runNo, firstRun, simI, results, progressLog, scenarioStates,
                 cumulativeInflation, firstYearData, drawLog, storeVars>>

\* ProgressAfter reporting i * 100, the division by simulationCount left out
ProgressAfterUndivided(log, idx, simulationCount) ==
  IF idx % ProgressEvery = 0
  THEN Append(log, NMul(Num(idx), Num(100)))
  ELSE log

\* ProgressAfter without the test of i % 100
ProgressAfterEveryTrajectory(log, idx, simulationCount) ==
  Append(log, NMul(NDiv(Num(idx), Num(simulationCount)), Num(100)))

\* onProgress((i / params.simulationCount) * 100) when i % 100 === 0
ProgressAfter(log, idx, simulationCount) ==
  IF idx % ProgressEvery = 0
  THEN Append(log, NMul(NDiv(Num(idx), Num(simulationCount)), Num(100)))
  ELSE log

\* the year loop ends without a year recorded and with a scenario to
\* summarise: lastYear is undefined and lastYear.scenarios throws a TypeError,
\* which leaves runMonteCarloSimulation and the worker's handler
SummaryThrows ==
  /\ pc = "year"
  /\ i >= params.yearsLater
  /\ yearlyData = <<>>
  /\ params.scenarios # <<>>
  /\ pc' = "failed"
  /\ EndTrajectory
  /\ UNCHANGED <<uiVars, cancelRequested, params, runNo, firstRun, simI, results, progressLog, drawLog,
                 storeVars>>

\* the year loop ends: the summary is built, runSingleSimulation returns, and
\* runMonteCarloSimulation pushes the result and reports progress (lastYear
\* is read only inside the loop over the scenarios)
FinishTrajectory ==
  /\ pc = "year"
  /\ i >= params.yearsLater
  /\ yearlyData # <<>> \/ params.scenarios = <<>>
  /\ results' =
       Append(results,
              [summary |-> BuildSummary(params, yearlyData, firstYearData, scenarioStates),
               yearlyData |-> yearlyData])
  /\ progressLog' = ProgressAfter(progressLog, simI, params.simulationCount)
  /\ simI' = simI + 1
  /\ pc' = "mc"
  /\ EndTrajectory
  /\ UNCHANGED <<uiVars, cancelRequested, params, runNo, firstRun, drawLog, storeVars>>

\* the loop of runMonteCarloSimulation ends: onProgress(100), return results,
\* and the worker posts {type: 'complete', results}
MonteCarloDone ==
  /\ pc = "mc"
  /\ simI >= params.simulationCount
  /\ progressLog' = Append(progressLog, Num(100))
  /\ pc' = "complete"
  /\ UNCHANGED <<uiVars, cancelRequested, params, runNo, firstRun, simI, results, trajectoryVars, drawLog, storeVars>>

----------------------------------------------------------------------------
(* The store: runSimulation after the worker's 'complete' message *)

\* statistics.value = calculateStatistics(e.data.results)
CalculateStatistics ==
  /\ pc = "complete"
  /\ statistics' = calculateStatistics(results)
  /\ pc' = "stats"
  /\ UNCHANGED <<uiVars, cancelRequested, params, runNo, firstRun, simI, results, progressLog, trajectoryVars,
                 drawLog, representativeSimulationId>>

\* representativeSimulationId.value = findRepresentativeSimulation(results, statistics)
FindRepresentative ==
  /\ pc = "stats"
  /\ representativeSimulationId' = findRepresentativeSimulation(results, statistics)
  /\ pc' = "done"
  /\ UNCHANGED <<uiVars, cancelRequested, params, runNo, firstRun, simI, results, progressLog, trajectoryVars,
                 drawLog, statistics>>

\* runSimulation is called a second time, with the same parameters or with
\* one scenario's configuration or the seed changed; a new worker starts
Rerun(P) ==
  /\ pc = "done"
  /\ runNo = 1
  /\ firstRun' = [params |-> params, results |-> results, drawLog |-> drawLog]
  /\ runNo' = 2
  /\ \E p \in P :
       /\ LET changed == {k \in DOMAIN p.scenarios : p.scenarios[k] # params.scenarios[k]}
          IN  \/ Cardinality(changed) = 1 /\ p.seed = params.seed
              \/ changed = {}
       /\ params' = p
  /\ pc' = "mc"
  /\ simI' = 0
  /\ results' = <<>>
  /\ progressLog' = <<>>
  /\ drawLog' = {}
  /\ cancelRequested' = Null
  /\ UNCHANGED <<trajectoryVars, storeVars, uiVars>>

\* The caller wishes to stop the run early, while the worker is inside
\* runMonteCarloSimulation.  The wish is remembered with the number of
\* trajectories started so far; runMonteCarloSimulation takes only params
\* and onProgress and reads no such signal, so no other variable changes.
RequestCancel ==
  /\ pc \in {"mc", "year", "scenario"}
  /\ cancelRequested = Null
  /\ cancelRequested' = Some(IF pc = "mc" THEN simI ELSE simI + 1)
  /\ UNCHANGED <<params, runNo, firstRun, pc, simI, results, progressLog, trajectoryVars,
                 drawLog, storeVars, uiVars>>

RunOnce ==
  \/ StartTrajectory
  \/ DrawYear
  \/ ProcessScenario
  \/ RecordYear
  \/ FinishTrajectory
  \/ MonteCarloDone
  \/ CalculateStatistics
  \/ FindRepresentative

----------------------------------------------------------------------------
(* Specifications *)

\* The parameters of the two worked examples: capital 1,000,000, one year,
\* development forced to 0.10, inflation forced to 0, no withdrawals,
\* ISK basis rate 0.03 without volatility, capital gains tax 0.30
ConcreteParams ==
  InputParameters(Num(1000000), 1, 1, Frac(1, 10), Zero, Zero,
                  ScenarioISK(Zero, Zero, 5, Frac(3, 10), Frac(3, 100), Zero),
                  ScenarioVP(Zero, Zero, 5, Frac(3, 10)), "seedA")

\* One trajectory per run, over every scenario configuration
WideParams ==
  {ConcreteParams} \cup
  { InputParameters(ic, yl, 1, Frac(-1, 2), Frac(1, 4), Frac(1, 8), isk, vp, "seedA") :
      ic \in {Zero, Num(1024)}, yl \in 1..MaxYears, isk \in IskConfigs, vp \in VpConfigs }

\* Several trajectories per run.  A one-year horizon with varying development
\* and inflation and a volatile ISK basis rate; a two-year horizon with
\* varying inflation, a fixed development, a fixed ISK basis rate and
\* profit-based withdrawals only; and the same with balance-based
\* withdrawals too, for at most three trajectories (beyond that the exact
\* distances leave the range of TLC's integers).
ManyParams ==
  { InputParameters(Num(160), 1, sc, Frac(1, 10), Frac(1, 2), Frac(1, 8),
                    ScenarioISK(Frac(1, 8), Frac(1, 2), 1, Frac(1, 2), Frac(3, 100), Frac(1, 2)),
                    ScenarioVP(Frac(1, 8), Frac(1, 2), 1, Frac(1, 2)), "seedA") :
      sc \in 1..MaxSimulationCount } \cup
  { InputParameters(Num(8), 2, sc, One, Zero, Frac(1, 8),
                    ScenarioISK(Zero, Frac(1, 2), 1, Frac(1, 2), Frac(1, 4), Zero),
                    ScenarioVP(Zero, Frac(1, 2), 1, Frac(1, 2)), "seedA") :
      sc \in 1..MaxSimulationCount } \cup
  { InputParameters(Num(8), 2, sc, One, Zero, Frac(1, 8),
                    ScenarioISK(Frac(1, 2), Frac(1, 2), 1, Frac(1, 2), Frac(1, 4), Zero),
                    ScenarioVP(Frac(1, 2), Frac(1, 2), 1, Frac(1, 2)), "seedA") :
      sc \in {1, 2, 3} }

\* The configurations of a scenario named VP in a second run: the tax model
\* may be switched to ISK
VpOrSwitched ==
  { ScenarioVP(Zero, Zero, 5, Frac(1, 2)),
    ScenarioVP(Frac(1, 8), Frac(1, 2), 1, Frac(1, 2)),
    [ScenarioISK(Frac(1, 8), Frac(1, 2), 1, Frac(1, 2), Frac(1, 2), Frac(1, 32))
       EXCEPT !.name = "VP"] }

\* The parameters of the runs that are repeated: one trajectory of two years
RerunParams ==
  { InputParameters(Num(1024), 2, 1, Frac(-1, 2), Frac(1, 4), Zero, isk, vp, sd) :
      isk \in { ScenarioISK(Zero, Zero, 5, Frac(1, 2), Frac(1, 2), Zero),
                ScenarioISK(Frac(1, 8), Frac(1, 2), 1, Frac(1, 2), Frac(1, 2), Frac(1, 32)) },
      vp \in VpOrSwitched, sd \in Seeds }

Init == InitWith(WideParams)

Next == RunOnce

Spec == Init /\ [][Next]_vars

\* Runs of several trajectories
InitMany == InitWith(ManyParams)

SpecMany == InitMany /\ [][Next]_vars

\* A run followed by a second run
InitRerun == InitWith({p \in RerunParams : p.seed = "seedA"})

NextRerun == RunOnce \/ Rerun(RerunParams)

SpecRerun == InitRerun /\ [][NextRerun]_vars

\* Parameters at the edges of what runMonteCarloSimulation accepts: no
\* trajectory to run, no scenario, no year, an inflation of exactly -100%
\* (the factor 1 + inflationRate is 0) and inflation draws below -100%;
\* and, beside them, an ordinary run
EdgeScenarios ==
  << ScenarioISK(Frac(1, 8), Frac(1, 2), 1, Frac(1, 2), Frac(1, 2), Zero),
     ScenarioVP(Frac(1, 8), Frac(1, 2), 1, Frac(1, 2)) >>

EdgeBase(yl, sc, infl, isd, scenarios) ==
  [InputParameters(Num(64), yl, sc, Frac(-1, 2), Frac(1, 4), isd,
                   EdgeScenarios[1], EdgeScenarios[2], "seedA")
     EXCEPT !.inflationRate = infl, !.scenarios = scenarios]

EdgeParams ==
  { EdgeBase(1, 0, Zero, Frac(1, 8), EdgeScenarios),
    EdgeBase(1, 1, Zero, Frac(1, 8), <<>>),
    EdgeBase(1, 2, Zero, Frac(1, 8), <<>>),
    EdgeBase(0, 1, Zero, Frac(1, 8), EdgeScenarios),
    EdgeBase(-1, 1, Zero, Frac(1, 8), EdgeScenarios),
    EdgeBase(0, 1, Zero, Frac(1, 8), <<>>),
    EdgeBase(0, 0, Zero, Frac(1, 8), <<>>),
    EdgeBase(2, 2, Num(-1), Zero, EdgeScenarios),
    EdgeBase(2, 1, Zero, Frac(1, 2), EdgeScenarios),
    EdgeBase(2, 1, Zero, Frac(1, 8), EdgeScenarios) }

InitEdge == InitWith(EdgeParams)

NextEdge == RunOnce \/ SummaryThrows

SpecEdge == InitEdge /\ [][NextEdge]_vars

\* Long runs: up to MaxLongRun trajectories of one year each, with every
\* standard deviation 0, so that each trajectory has one course
LongRunParams ==
  { InputParameters(Num(64), 1, sc, Zero, Zero, Zero,
                    ScenarioISK(Zero, Zero, 5, Frac(1, 2), Frac(1, 2), Zero),
                    ScenarioVP(Zero, Zero, 5, Frac(1, 2)), "seedA") :
      sc \in {1, 2, 99, 100, 101, 200, MaxLongRun} }

InitProgress == InitWith(LongRunParams)

\* Runs whose trajectories are reordered afterwards: two years, with the
\* inflation varying and the development fixed, or the development varying
\* (down to -100%) and the inflation fixed (up to three trajectories)
PermuteParams ==
  { InputParameters(Num(8), 2, sc, One, Zero, Frac(1, 8),
                    ScenarioISK(Zero, Frac(1, 2), 1, Frac(1, 2), Frac(1, 4), Zero),
                    ScenarioVP(Zero, Frac(1, 2), 1, Frac(1, 2)), "seedA") :
      sc \in 1..MaxSimulationCount } \cup
  { InputParameters(Num(16), 2, sc, Zero, Frac(1, 4), Zero,
                    ScenarioISK(Frac(1, 4), Zero, 5, Frac(1, 2), Frac(1, 2), Zero),
                    ScenarioVP(Frac(1, 4), Zero, 5, Frac(1, 2)), "seedA") :
      sc \in {1, 2, 3} }

InitPermute == InitWith(PermuteParams)

\* Runs during which the caller may wish to stop
NextCancel == RunOnce \/ RequestCancel

SpecCancel == InitPermute /\ [][NextCancel]_vars

SpecPermute == InitPermute /\ [][Next]_vars

\* The worker alone: runMonteCarloSimulation up to its return
NextWorker ==
  \/ StartTrajectory
  \/ DrawYear
  \/ ProcessScenario
  \/ RecordYear
  \/ FinishTrajectory
  \/ MonteCarloDone

SpecProgress == InitProgress /\ [][NextWorker]_vars

\* One trajectory over a horizon longer than the lookback window: the
\* development draws are -50% and +100%, inflation is fixed at 0, the
\* lookback is 0, 1 or 2 years
LookbackParams ==
  { InputParameters(Num(64), yl, 1, Zero, Frac(1, 8), Zero,
                    ScenarioISK(bwr, Frac(1, 2), ply, Frac(1, 2), Frac(1, 2), Zero),
                    ScenarioVP(bwr, Frac(1, 2), ply, Frac(1, 2)), "seedA") :
      yl \in 1..(MaxYears + 1), bwr \in {Zero, Frac(1, 8)}, ply \in {0, 1, 2} }

InitLookback == InitWith(LookbackParams)

SpecLookback == InitLookback /\ [][Next]_vars

----------------------------------------------------------------------------
(* The calculator store's runSimulation and its workers *)

\* lastYear is undefined and a scenario is summarised: runSingleSimulation
\* throws a TypeError
SingleSimulationThrows(p) == p.yearsLater <= 0 /\ p.scenarios # <<>>

\* a message or an error event on its way from a worker to the main thread
Message(type, value) == [type |-> type, progress |-> value]

\* onProgress posts {type: 'progress', progress}
ProgressMessages(idx, simulationCount) ==
  LET posted == ProgressAfter(<<>>, idx, simulationCount)
  IN  [k \in DOMAIN posted |-> Message("progress", posted[k])]

\* a HistoryRecord made at time timestamp by the nth call of addRecord; nth
\* is kept for the claims only, and id stands for `sim-${timestamp}`
HistoryRecord(timestamp, nth) ==
  [id |-> timestamp, timestamp |-> timestamp, title |-> "date", nth |-> nth]

\* AddRecord without the slice to maxRecords
AddRecordUntrimmed(recs, timestamp, nth) == <<HistoryRecord(timestamp, nth)>> \o recs

\* The history list after addRecord at time timestamp
AddRecord(recs, timestamp, nth) ==
  LET unshifted == <<HistoryRecord(timestamp, nth)>> \o recs
  IN  IF Len(unshifted) > maxRecords THEN SubSeq(unshifted, 1, maxRecords) ELSE unshifted

\* runSimulation up to its await: a worker is created, isRunning and progress
\* are set, the parameters are posted.  The calls are numbered in the order
\* in which they are made.
CallRunSimulation(c, p) ==
  /\ calls[c].pc = "idle"
  /\ \A earlier \in 1..(c - 1) : calls[earlier].pc # "idle"
  /\ isRunning' = TRUE
  /\ progress' = Zero
  /\ \E random \in Seeds :
       calls' = [calls EXCEPT ![c] =
                   [pc |-> "awaiting", worker |-> "running", outcome |-> "none",
                    params |-> [p EXCEPT !.seed = IF seed = Undefined THEN random ELSE seed[1]],
                    i |-> 0, inbox |-> <<>>]]
  /\ UNCHANGED <<seed, resultsFrom, historyVars, chartVars, portfolioVars, simVars>>

\* The worker of call c computes one trajectory and reports progress
WorkerTrajectory(c) ==
  /\ calls[c].worker = "running"
  /\ calls[c].i < calls[c].params.simulationCount
  /\ ~SingleSimulationThrows(calls[c].params)
  /\ calls' = [calls EXCEPT
                 ![c].inbox = @ \o ProgressMessages(calls[c].i, calls[c].params.simulationCount),
                 ![c].i = @ + 1]
  /\ UNCHANGED <<isRunning, progress, seed, resultsFrom, historyVars, chartVars, portfolioVars, simVars>>

\* The worker of call c throws inside runSingleSimulation: an error event
WorkerThrows(c) ==
  /\ calls[c].worker = "running"
  /\ calls[c].i < calls[c].params.simulationCount
  /\ SingleSimulationThrows(calls[c].params)
  /\ calls' = [calls EXCEPT ![c].inbox = Append(@, Message("error", Undefined)),
                            ![c].worker = "threw"]
  /\ UNCHANGED <<isRunning, progress, seed, resultsFrom, historyVars, chartVars, portfolioVars, simVars>>

\* The worker of call c leaves the loop: onProgress(100), then 'complete'
WorkerReturns(c) ==
  /\ calls[c].worker = "running"
  /\ ~(calls[c].i < calls[c].params.simulationCount)
  /\ calls' = [calls EXCEPT
                 ![c].inbox = @ \o <<Message("progress", Num(100)), Message("complete", Undefined)>>,
                 ![c].worker = "returned"]
  /\ UNCHANGED <<isRunning, progress, seed, resultsFrom, historyVars, chartVars, portfolioVars, simVars>>

\* worker.onmessage, worker.onerror: the main thread handles the oldest
\* message of call c's worker
OnMessage(c) ==
  /\ calls[c].worker # "terminated"
  /\ calls[c].inbox # <<>>
  /\ LET data == Head(calls[c].inbox)
     IN  /\ progress' = IF data.type = "progress" THEN NMul(data.progress, Frac(6, 10))
                        ELSE progress
         /\ calls' = [calls EXCEPT
                        ![c].inbox = Tail(@),
                        ![c].pc = IF data.type = "complete" /\ @ = "awaiting" THEN "resolved"
                                  ELSE IF data.type = "error" /\ @ = "awaiting" THEN "rejected"
                                  ELSE @,
                        ![c].outcome = IF data.type \in {"complete", "error"} /\ @ = "none"
                                       THEN data.type ELSE @]
  /\ UNCHANGED <<isRunning, seed, resultsFrom, historyVars, chartVars, portfolioVars, simVars>>

\* the finally block without its writes to the store
FinallyOnlyTerminates(c) ==
  /\ calls' = [calls EXCEPT ![c].pc = "ended", ![c].worker = "terminated", ![c].inbox = <<>>]
  /\ UNCHANGED <<isRunning, progress, seed>>

\* finally: worker.terminate(), isRunning, progress, seed
Finally(c) ==
  /\ calls' = [calls EXCEPT ![c].pc = "ended", ![c].worker = "terminated", ![c].inbox = <<>>]
  /\ isRunning' = FALSE
  /\ progress' = Num(100)
  /\ seed' = Undefined

\* runSimulation after its await resolved: the results are stored, the
\* record is added to the history, then the finally block
ContinueResolved(c) ==
  /\ calls[c].pc = "resolved"
  /\ resultsFrom' = <<c>>
  /\ \E timestamp \in {now, now + 1} :
       /\ now' = timestamp
       /\ records' = AddRecord(records, timestamp, added + 1)
  /\ added' = added + 1
  /\ Finally(c)
  /\ UNCHANGED <<historyOps, chartVars, portfolioVars, simVars>>

\* runSimulation after its await rejected: the finally block alone
ContinueRejected(c) ==
  /\ calls[c].pc = "rejected"
  /\ Finally(c)
  /\ UNCHANGED <<resultsFrom, historyVars, chartVars, portfolioVars, simVars>>

\* The parameters of the calls: trajectories that are computed, a run of no
\* trajectory, and a horizon of zero years whose summary throws
RunParams ==
  { EdgeBase(1, sc, Zero, Zero, EdgeScenarios) : sc \in {0, 1, 2} } \cup
  { EdgeBase(0, 1, Zero, Zero, EdgeScenarios) }

\* The simulation of a single run is left aside
InitStore ==
  /\ InitSim({ConcreteParams})
  /\ isRunning = FALSE
  /\ progress = Zero
  /\ seed \in {Undefined, <<"seedA">>}
  /\ calls = [c \in Calls |-> IdleCall]
  /\ resultsFrom = <<>>
  /\ HistoryEmpty
  /\ ChartIdle
  /\ PortfolioIdle

\* What the worker of call c does
WorkerStep(c) == WorkerTrajectory(c) \/ WorkerThrows(c) \/ WorkerReturns(c)

\* What the main thread does for call c once it was made
MainStep(c) == OnMessage(c) \/ ContinueResolved(c) \/ ContinueRejected(c)

\* The run button of InputParameters.vue is disabled while isRunning
ClickRun == ~isRunning /\ \E c \in Calls, p \in RunParams : CallRunSimulation(c, p)

NextClicked == ClickRun \/ \E c \in Calls : WorkerStep(c) \/ MainStep(c)

SpecClicked == InitStore /\ [][NextClicked]_vars

\* A worker thread keeps running and the event loop keeps delivering
SpecClickedFair ==
  /\ SpecClicked
  /\ \A c \in Calls : WF_vars(WorkerStep(c)) /\ WF_vars(MainStep(c))

\* runSimulation is called whenever a caller of the store wishes
NextOverlapping ==
  \/ \E c \in Calls, p \in RunParams : CallRunSimulation(c, p)
  \/ \E c \in Calls : WorkerStep(c) \/ MainStep(c)

SpecOverlapping == InitStore /\ [][NextOverlapping]_vars

----------------------------------------------------------------------------
(* The history store *)

\* the most history operations in one behaviour
MaxHistoryOps == 3

\* The list that n calls of addRecord leave, one per millisecond
Stored(n) == [k \in 1..n |-> HistoryRecord(n + 1 - k, n + 1 - k)]

\* loadFromStorage: the list saved by an earlier session
InitHistory ==
  /\ InitSim({ConcreteParams})
  /\ RunIdle
  /\ \E n \in {0, 1, maxRecords - 1, maxRecords} :
       /\ records = Stored(n)
       /\ now = n
       /\ added = n
  /\ historyOps = 0
  /\ ChartIdle
  /\ PortfolioIdle

\* the ids that the user's operations name: the newest record's, the oldest
\* record's and one that no record has
IdsTried ==
  {0} \cup (IF records = <<>> THEN {} ELSE {records[1].id, records[Len(records)].id})

\* array.find: the index of the first record with the id, 0 if there is none
FindIndex(recs, id) ==
  IF \E k \in DOMAIN recs : recs[k].id = id
  THEN CHOOSE k \in DOMAIN recs :
         recs[k].id = id /\ \A earlier \in 1..(k - 1) : recs[earlier].id # id
  ELSE 0

\* array.filter(r => r.id !== id)
Filter(recs, id) ==
  LET Kept(r) == r.id # id
  IN  SelectSeq(recs, Kept)

\* addRecord, which a finished simulation calls; the clock has the same
\* millisecond as at the last call or a later one
AddRecordOp ==
  /\ historyOps < MaxHistoryOps
  /\ \E timestamp \in {now, now + 1} :
       /\ now' = timestamp
       /\ records' = AddRecord(records, timestamp, added + 1)
  /\ added' = added + 1
  /\ historyOps' = historyOps + 1
  /\ UNCHANGED <<runVars, chartVars, portfolioVars, simVars>>

\* updateTitle(id, newTitle)
UpdateTitle(id, newTitle) ==
  /\ historyOps < MaxHistoryOps
  /\ LET k == FindIndex(records, id)
     IN  records' = IF k # 0 THEN [records EXCEPT ![k].title = newTitle] ELSE records
  /\ historyOps' = historyOps + 1
  /\ UNCHANGED <<now, added, runVars, chartVars, portfolioVars, simVars>>

\* removeRecord(id)
RemoveRecord(id) ==
  /\ historyOps < MaxHistoryOps
  /\ records' = Filter(records, id)
  /\ historyOps' = historyOps + 1
  /\ UNCHANGED <<now, added, runVars, chartVars, portfolioVars, simVars>>

\* clearAll()
ClearAll ==
  /\ historyOps < MaxHistoryOps
  /\ records' = <<>>
  /\ historyOps' = historyOps + 1
  /\ UNCHANGED <<now, added, runVars, chartVars, portfolioVars, simVars>>

NextHistory ==
  \/ AddRecordOp
  \/ \E id \in IdsTried : UpdateTitle(id, "renamed")
  \/ \E id \in IdsTried : RemoveRecord(id)
  \/ ClearAll

SpecHistory == InitHistory /\ [][NextHistory]_vars

----------------------------------------------------------------------------
(* The lazy chart component *)

\* the most events (data changes, visibility changes, window resizes, layout
\* changes) that one behaviour of the chart sees
MaxChartEvents == 4

\* The sizes a container takes: none, a height without a width, and two
\* sizes with both
Sizes == {<<0, 0>>, <<0, 3>>, <<4, 3>>, <<8, 3>>}

\* maybeRender without the test of isVisible before rendering
MaybeRenderWhenHidden(L, size) ==
  IF ~L.mounted THEN L
  ELSE
    LET width == size[1]
        height == size[2]
    IN  IF width = 0 \/ height = 0
        THEN IF L.isVisible /\ L.dataDirty /\ L.rafId = Null
             THEN [L EXCEPT !.rafId = Some(L.handles + 1),
                            !.frames = @ \cup {L.handles + 1},
                            !.timeoutId = Some(L.handles + 2),
                            !.timers = @ \cup {L.handles + 2},
                            !.handles = @ + 2]
             ELSE L
        ELSE LET sizeChanged == width # L.lastSize[1] \/ height # L.lastSize[2]
                 needsRender == sizeChanged \/ L.dataDirty
             IN  IF needsRender
                 THEN [L EXCEPT
                         !.lastSize = <<width, height>>,
                         !.dataDirty = FALSE,
                         !.rendered = Some([width |-> width, height |-> height,
                                            isVisible |-> L.isVisible,
                                            dataDirty |-> L.dataDirty,
                                            sizeChanged |-> sizeChanged]),
                         !.renders = @ + 1,
                         !.frames = IF L.rafId # Null THEN @ \ {L.rafId[1]} ELSE @,
                         !.rafId = Null,
                         !.timers = IF L.timeoutId # Null THEN @ \ {L.timeoutId[1]} ELSE @,
                         !.timeoutId = Null]
                 ELSE L

\* maybeRender, on the component state L with a container of the given size
MaybeRender(L, size) ==
  IF ~L.mounted THEN L
  ELSE
    LET width == size[1]
        height == size[2]
    IN  IF width = 0 \/ height = 0
        THEN IF L.isVisible /\ L.dataDirty /\ L.rafId = Null
             THEN [L EXCEPT !.rafId = Some(L.handles + 1),
                            !.frames = @ \cup {L.handles + 1},
                            !.timeoutId = Some(L.handles + 2),
                            !.timers = @ \cup {L.handles + 2},
                            !.handles = @ + 2]
             ELSE L
        ELSE IF ~L.isVisible THEN L
        ELSE LET sizeChanged == width # L.lastSize[1] \/ height # L.lastSize[2]
                 needsRender == sizeChanged \/ L.dataDirty
             IN  IF needsRender
                 THEN [L EXCEPT
                         !.lastSize = <<width, height>>,
                         !.dataDirty = FALSE,
                         !.rendered = Some([width |-> width, height |-> height,
                                            isVisible |-> L.isVisible,
                                            dataDirty |-> L.dataDirty,
                                            sizeChanged |-> sizeChanged]),
                         !.renders = @ + 1,
                         !.frames = IF L.rafId # Null THEN @ \ {L.rafId[1]} ELSE @,
                         !.rafId = Null,
                         !.timers = IF L.timeoutId # Null THEN @ \ {L.timeoutId[1]} ELSE @,
                         !.timeoutId = Null]
                 ELSE L

\* onMounted: the refs are set, the observer and the resize listener are
\* installed, and maybeRender runs if the chart is visible already
Mount ==
  /\ lazyChart = UnmountedChart
  /\ LET L == [lazyChart EXCEPT !.mounted = TRUE]
     IN  lazyChart' = IF L.isVisible THEN MaybeRender(L, container) ELSE L
  /\ UNCHANGED <<container, chartEvents, runVars, historyVars, portfolioVars, simVars>>

\* onBeforeUnmount: listeners removed, pending callbacks cancelled; the refs
\* of the template are gone
Unmount ==
  /\ lazyChart.mounted
  /\ lazyChart' =
       [lazyChart EXCEPT
          !.mounted = FALSE,
          !.frames = IF lazyChart.rafId # Null THEN @ \ {lazyChart.rafId[1]} ELSE @,
          !.timers = IF lazyChart.timeoutId # Null THEN @ \ {lazyChart.timeoutId[1]} ELSE @]
  /\ UNCHANGED <<container, chartEvents, runVars, historyVars, portfolioVars, simVars>>

\* watch(props.data): the data changed
DataChange ==
  /\ chartEvents < MaxChartEvents
  /\ lazyChart.mounted \/ lazyChart = UnmountedChart
  /\ lazyChart' = MaybeRender([lazyChart EXCEPT !.dataDirty = TRUE], container)
  /\ chartEvents' = chartEvents + 1
  /\ UNCHANGED <<container, runVars, historyVars, portfolioVars, simVars>>

\* The IntersectionObserver's callback with one entry
Intersection(isIntersecting) ==
  /\ chartEvents < MaxChartEvents
  /\ lazyChart.mounted
  /\ LET wasVisible == lazyChart.isVisible
         L == [lazyChart EXCEPT !.isVisible = isIntersecting]
     IN  lazyChart' = IF ~wasVisible /\ L.isVisible THEN MaybeRender(L, container) ELSE L
  /\ chartEvents' = chartEvents + 1
  /\ UNCHANGED <<container, runVars, historyVars, portfolioVars, simVars>>

\* handleResize: the window was resized
WindowResize ==
  /\ chartEvents < MaxChartEvents
  /\ lazyChart.mounted
  /\ lazyChart' = MaybeRender(lazyChart, container)
  /\ chartEvents' = chartEvents + 1
  /\ UNCHANGED <<container, runVars, historyVars, portfolioVars, simVars>>

\* The layout gives the container another size; no handler runs
LayoutChange(size) ==
  /\ chartEvents < MaxChartEvents
  /\ lazyChart.mounted
  /\ size # container
  /\ container' = size
  /\ chartEvents' = chartEvents + 1
  /\ UNCHANGED <<lazyChart, runVars, historyVars, portfolioVars, simVars>>

\* The browser runs a requested animation frame: maybeRender
AnimationFrame(id) ==
  /\ id \in lazyChart.frames
  /\ lazyChart' = MaybeRender([lazyChart EXCEPT !.frames = @ \ {id}], container)
  /\ UNCHANGED <<container, chartEvents, runVars, historyVars, portfolioVars, simVars>>

\* The browser runs the timeout set with a recheck
Timeout(id) ==
  /\ id \in lazyChart.timers
  /\ lazyChart' =
       [lazyChart EXCEPT
          !.timers = @ \ {id},
          !.timeoutId = Null,
          !.frames = IF lazyChart.rafId # Null THEN @ \ {lazyChart.rafId[1]} ELSE @,
          !.rafId = Null]
  /\ UNCHANGED <<container, chartEvents, runVars, historyVars, portfolioVars, simVars>>

InitChart ==
  /\ InitSim({ConcreteParams})
  /\ RunIdle
  /\ HistoryEmpty
  /\ PortfolioIdle
  /\ lazyChart = UnmountedChart
  /\ container \in Sizes
  /\ chartEvents = 0

\* What the browser does by itself
BrowserStep ==
  \/ \E id \in lazyChart.frames : AnimationFrame(id)
  \/ \E id \in lazyChart.timers : Timeout(id)

NextChart ==
  \/ Mount
  \/ Unmount
  \/ DataChange
  \/ \E isIntersecting \in BOOLEAN : Intersection(isIntersecting)
  \/ WindowResize
  \/ \E size \in Sizes : LayoutChange(size)
  \/ BrowserStep

SpecChart == InitChart /\ [][NextChart]_vars

\* The browser runs every callback it was asked to run
SpecChartFair == SpecChart /\ WF_vars(BrowserStep)

----------------------------------------------------------------------------
(* The portfolio editor *)

\* the most assets a portfolio is given
MaxAssets == 4

\* getNextFundName: the least k >= 1 that no asset named `Fond ${k}` uses
NextFundNumber(assets) ==
  LET usedNumbers == {assets[k].name : k \in DOMAIN assets} \ {0}
  IN  CHOOSE nextNumber \in 1..(Len(assets) + 1) :
        /\ nextNumber \notin usedNumbers
        /\ \A smaller \in 1..(nextNumber - 1) : smaller \in usedNumbers

\* matrix[row] is undefined, so that matrix[row][col] raises a TypeError
RowMissing(matrix, row) == row >= Len(matrix)

\* matrix[row][col] of an existing row, undefined beyond the row's end
Cell(matrix, row, col) ==
  IF col < Len(matrix[row + 1]) THEN matrix[row + 1][col + 1] ELSE Undefined

\* addAsset()
AddAsset ==
  /\ Len(portfolio.assets) < MaxAssets
  /\ LET matrix == portfolio.correlationMatrix
         assets == Append(portfolio.assets,
                          Asset(NextFundNumber(portfolio.assets), Zero, Frac(1, 10), Frac(2, 10)))
         n == Len(assets)
         throws == \E row \in 0..(n - 2) : RowMissing(matrix, row)
         newMatrix ==
           [r \in 1..n |->
             [c \in 1..n |->
               IF r = n \/ c = n
               THEN IF r = c THEN One ELSE Frac(1, 2)
               ELSE Cell(matrix, r - 1, c - 1)]]
     IN  /\ portfolio' = [assets |-> assets,
                          correlationMatrix |-> IF throws THEN matrix ELSE newMatrix]
         /\ raised' = throws
  /\ lastOp' = "addAsset"
  /\ UNCHANGED <<selectedAssetIndex, runVars, historyVars, chartVars, simVars>>

\* removeAsset(index)
RemoveAsset(index) ==
  /\ index \in 0..(Len(portfolio.assets) - 1)
  /\ lastOp' = "removeAsset"
  /\ IF Len(portfolio.assets) <= 1
     THEN /\ raised' = FALSE
          /\ UNCHANGED <<portfolio, selectedAssetIndex>>
     ELSE LET matrix == portfolio.correlationMatrix
              n == Len(portfolio.assets) - 1
              \* the old index of the asset at the new index k (both from 0)
              old == [k \in 0..(n - 1) |-> IF k < index THEN k ELSE k + 1]
              assets == [k \in 1..n |-> portfolio.assets[old[k - 1] + 1]]
              throws == \E row \in (0..n) \ {index} : RowMissing(matrix, row)
              newMatrix ==
                [r \in 1..n |-> [c \in 1..n |-> Cell(matrix, old[r - 1], old[c - 1])]]
          IN  /\ portfolio' = [assets |-> assets,
                               correlationMatrix |-> IF throws THEN matrix ELSE newMatrix]
              /\ raised' = throws
              /\ selectedAssetIndex' =
                   IF ~throws /\ selectedAssetIndex >= n THEN n - 1 ELSE selectedAssetIndex
  /\ UNCHANGED <<runVars, historyVars, chartVars, simVars>>

\* v-model="selectedAssetIndex": the user selects the asset of a row
SelectAsset(index) ==
  /\ index \in 0..(Len(portfolio.assets) - 1)
  /\ index # selectedAssetIndex
  /\ selectedAssetIndex' = index
  /\ UNCHANGED <<portfolio, lastOp, raised, runVars, historyVars, chartVars, simVars>>

InitPortfolio ==
  /\ InitSim({ConcreteParams})
  /\ RunIdle
  /\ HistoryEmpty
  /\ ChartIdle
  /\ PortfolioIdle

NextPortfolio ==
  \/ AddAsset
  \/ \E index \in 0..(MaxAssets - 1) : RemoveAsset(index)
  \/ \E index \in 0..(MaxAssets - 1) : SelectAsset(index)

SpecPortfolio == InitPortfolio /\ [][NextPortfolio]_vars

----------------------------------------------------------------------------
(* What the claims speak about *)

\* the scenario of the parameters p that is named nm
ScenarioNamed(p, nm) == CHOOSE sc \in {p.scenarios[k] : k \in DOMAIN p.scenarios} : sc.name = nm

\* every per-scenario yearly record that exists: in the finished trajectories,
\* in the finished years of the current trajectory, and in the current year
ScenarioRecords ==
  { [scen |-> nm, data |-> results[k].yearlyData[y].scenarios[nm]] :
      <<k, y, nm>> \in { t \in (DOMAIN results) \X (1..MaxYears + 1) \X {"ISK", "VP"} :
                          /\ t[2] \in DOMAIN results[t[1]].yearlyData
                          /\ t[3] \in DOMAIN results[t[1]].yearlyData[t[2]].scenarios } }
  \cup { [scen |-> nm, data |-> yearlyData[y].scenarios[nm]] :
           <<y, nm>> \in { t \in (DOMAIN yearlyData) \X {"ISK", "VP"} :
                            t[2] \in DOMAIN yearlyData[t[1]].scenarios } }
  \cup { [scen |-> nm, data |-> scenarioYearlyData[nm]] : nm \in DOMAIN scenarioYearlyData }

\* the record that scenario nm wrote in year y (from 0) of trajectory k (from 0)
RecordOf(k, y, nm) ==
  IF k < Len(results) THEN results[k + 1].yearlyData[y + 1].scenarios[nm]
  ELSE IF y < Len(yearlyData) THEN yearlyData[y + 1].scenarios[nm]
  ELSE scenarioYearlyData[nm]

\* the statistics exist
Aggregated == pc \in {"stats", "done"}

\* a <= b <= c <= d <= e
Ascending5(a, b, c, d, e) == NLe(a, b) /\ NLe(b, c) /\ NLe(c, d) /\ NLe(d, e)

----------------------------------------------------------------------------
(* C1 *)

\* C1: in every trajectory, for every year and every scenario, the recorded
\* balance (amount) is >= 0 and the balance carried into the next year is
\* >= 0, whatever the development draws (also below -100%).
C1_BalanceNeverNegative ==
  /\ \A r \in ScenarioRecords : NLe(Zero, r.data.amount)
  /\ \A key \in DOMAIN scenarioStates :
       /\ NLe(Zero, scenarioStates[key].amount)
       /\ \A k \in DOMAIN scenarioStates[key].yearlyAmounts :
            NLe(Zero, scenarioStates[key].yearlyAmounts[k])

\* C1 witness: a positive balance met a development draw below -100% and the
\* balance carried forward was clamped to 0.
C1_Witness ==
  /\ pc = "year"
  /\ i >= 1
  /\ NLt(yearlyData[i].development, Num(-1))
  /\ \E nm \in DOMAIN scenarioStates :
       /\ NGt(yearlyData[i].scenarios[nm].amount, Zero)
       /\ scenarioStates[nm].amount = Zero

----------------------------------------------------------------------------
(* C2 *)

\* the draws of the ISK basis-rate random walk
TaxRateDraws == {d \in drawLog : d.site \notin {"inflation", "development"}}

\* C2: whenever the ISK random-walk update runs, the scenario's currentTaxRate
\* afterwards (recorded as the year's taxRate) lies in [0.0125, 1.0], for any
\* previous rate and any increment, over any sequence of updates.
C2_RandomWalkRateClamped ==
  \A d \in TaxRateDraws :
    LET rate == RecordOf(d.sim, d.year, d.site).taxRate
    IN  NLe(Frac(125, 10000), rate) /\ NLe(rate, One)

\* C2 witness: two updates in a row, the first clamped at 1.0 from above, the
\* second clamped at 0.0125 from below.
C2_Witness ==
  /\ pc = "year"
  /\ i = 2
  /\ \E d \in TaxRateDraws :
       /\ d.site = "ISK" /\ d.year = 0
       /\ NGt(NAdd(ScenarioNamed(params, "ISK").iskTaxRate, d.value), One)
  /\ \E d \in TaxRateDraws : d.site = "ISK" /\ d.year = 1 /\ NLt(d.value, Num(-1))
  /\ yearlyData[1].scenarios["ISK"].taxRate = One
  /\ yearlyData[2].scenarios["ISK"].taxRate = Frac(125, 10000)

----------------------------------------------------------------------------
(* C3 *)

\* C3: for every ISK scenario, the taxRate of every yearly record is at least
\* 1.25% and at most 100%, whatever iskTaxRate is configured, also in years
\* without a random-walk update.
C3_RecordedIskRateInRange ==
  \A r \in ScenarioRecords :
    ScenarioNamed(params, r.scen).isISK =>
      NLe(Frac(125, 10000), r.data.taxRate) /\ NLe(r.data.taxRate, One)

----------------------------------------------------------------------------
(* C4 *)

\* C4: for every aggregated field (each ScenarioSummary field of each
\* scenario, averageInflationRate and averageDevelopment) and any non-empty
\* list of trajectories, percentile5 <= percentile25 <= median <=
\* percentile75 <= percentile95.
C4_PercentilesOrdered ==
  (Aggregated /\ results # <<>>) =>
    /\ \A nm \in DOMAIN statistics.median.scenarios : \A f \in SummaryFields :
         Ascending5(statistics.percentile5.scenarios[nm][f],
                    statistics.percentile25.scenarios[nm][f],
                    statistics.median.scenarios[nm][f],
                    statistics.percentile75.scenarios[nm][f],
                    statistics.percentile95.scenarios[nm][f])
    /\ \A f \in {"averageInflationRate", "averageDevelopment"} :
         Ascending5(statistics.percentile5[f], statistics.percentile25[f],
                    statistics.median[f], statistics.percentile75[f],
                    statistics.percentile95[f])

\* C4 witness: statistics over three trajectories in which a field has
\* percentile5 < median < percentile95.
C4_Witness ==
  /\ pc = "done"
  /\ Len(results) = 3
  /\ \E nm \in DOMAIN statistics.median.scenarios : \E f \in SummaryFields :
       /\ NLt(statistics.percentile5.scenarios[nm][f], statistics.median.scenarios[nm][f])
       /\ NLt(statistics.median.scenarios[nm][f], statistics.percentile95.scenarios[nm][f])

----------------------------------------------------------------------------
(* C5 *)

\* C5: over exactly one trajectory, every aggregated field has mean =
\* percentile5 = percentile25 = median = percentile75 = percentile95 = the
\* trajectory's value and stdDev = 0, every percentile index floor(n * p)
\* lying in [0, n - 1].
C5_SingleTrajectoryStatistics ==
  (Aggregated /\ Len(results) = 1) =>
    /\ \A pct \in {5, 25, 50, 75, 95} : FloorTimes(Len(results), pct) \in 0..(Len(results) - 1)
    /\ \A nm \in DOMAIN results[1].summary.scenarios : \A f \in SummaryFields :
         /\ \A kind \in StatKinds \ {"stdDev"} :
              statistics[kind].scenarios[nm][f] = results[1].summary.scenarios[nm][f]
         /\ statistics.stdDev.scenarios[nm][f] = MathSqrt(Zero)
    /\ \A f \in {"averageInflationRate", "averageDevelopment"} :
         /\ \A kind \in StatKinds \ {"stdDev"} : statistics[kind][f] = results[1].summary[f]
         /\ statistics.stdDev[f] = MathSqrt(Zero)

\* C5 witness: statistics over one trajectory with a non-zero paid tax.
C5_Witness ==
  /\ pc = "done"
  /\ Len(results) = 1
  /\ NGt(results[1].summary.scenarios["ISK"].paidTax, Zero)
  /\ statistics.median.scenarios["ISK"].paidTax = results[1].summary.scenarios["ISK"].paidTax

----------------------------------------------------------------------------
(* C6 *)

\* C6: two runs of runMonteCarloSimulation with the same seed and the same
\* parameters produce identical trajectories: the same yearly records and
\* summaries, in the same order.
C6_SameSeedSameTrajectories ==
  (runNo = 2 /\ pc = "complete" /\ params = firstRun.params) => results = firstRun.results

----------------------------------------------------------------------------
(* C7 *)

\* the draws that scenario nm sees: the shared draws and its own
DrawsSeenBy(log, nm) == {d \in log : d.site \in {"inflation", "development", nm}}

\* the yearly records of scenario nm in a list of trajectories
RecordsOfScenario(res, nm) ==
  [k \in DOMAIN res |-> [y \in DOMAIN res[k].yearlyData |-> res[k].yearlyData[y].scenarios[nm]]]

\* the summaries of scenario nm in a list of trajectories
SummariesOfScenario(res, nm) == [k \in DOMAIN res |-> res[k].summary.scenarios[nm]]

\* C7: within one trajectory, changing the configuration of one scenario
\* leaves every yearly value and the summary of every other scenario
\* unchanged, given that the other scenario sees the same development and
\* inflation draws (and the same draws of its own).
C7_ScenarioIndependence ==
  (runNo = 2 /\ pc = "complete") =>
    \A nm \in ScenarioNames(params) :
      ( /\ ScenarioNamed(params, nm) = ScenarioNamed(firstRun.params, nm)
        /\ DrawsSeenBy(drawLog, nm) = DrawsSeenBy(firstRun.drawLog, nm) )
      => /\ RecordsOfScenario(results, nm) = RecordsOfScenario(firstRun.results, nm)
         /\ SummariesOfScenario(results, nm) = SummariesOfScenario(firstRun.results, nm)

\* C7 witness: the second run changed the ISK scenario only, VP saw the same
\* draws in both runs, and the yearly values of ISK did change.
C7_Witness ==
  /\ runNo = 2
  /\ pc = "complete"
  /\ ScenarioNamed(params, "ISK") # ScenarioNamed(firstRun.params, "ISK")
  /\ ScenarioNamed(params, "VP") = ScenarioNamed(firstRun.params, "VP")
  /\ DrawsSeenBy(drawLog, "VP") = DrawsSeenBy(firstRun.drawLog, "VP")
  /\ RecordsOfScenario(results, "ISK") # RecordsOfScenario(firstRun.results, "ISK")
  /\ NGt(results[1].summary.scenarios["VP"].accumulatedRealWithdrawal, Zero)

----------------------------------------------------------------------------
(* C8 and C9: the worked examples *)

\* capital 1,000,000, one year, development 0.10 and inflation 0 drawn
ExampleYear ==
  /\ params.initialCapital = Num(1000000)
  /\ params.yearsLater = 1
  /\ pc = "scenario"
  /\ i = 0
  /\ development = Frac(10, 100)
  /\ inflationRate = Zero

\* scenario nm has been processed in the current year
Processed(nm) == nm \in DOMAIN scenarioYearlyData

\* the notional-tax scenario of the example
ExampleISK(sc) ==
  /\ sc.isISK
  /\ sc.balanceWithdrawalRate = Zero
  /\ sc.profitWithdrawalRate = Zero
  /\ sc.iskTaxRate = Frac(3, 100)
  /\ ~Truthy(sc.iskTaxRateStdDev)
  /\ sc.capitalGainsTax = Frac(30, 100)

\* the deferred-gains scenario of the example
ExampleVP(sc) ==
  /\ ~sc.isISK
  /\ sc.balanceWithdrawalRate = Zero
  /\ sc.profitWithdrawalRate = Zero
  /\ sc.capitalGainsTax = Frac(30, 100)

\* C8: notional-tax scenario, capital 1,000,000, one year, withdrawal rates
\* 0, tax rate 0.03 without volatility, capitalGainsTax 0.30, development
\* 0.10, inflation 0: the year's tax is 9,000 and the balance carried
\* forward is 1,091,000.
C8_NotionalTaxExample ==
  \A nm \in ScenarioNames(params) :
    (ExampleYear /\ Processed(nm) /\ ExampleISK(ScenarioNamed(params, nm))) =>
      /\ scenarioYearlyData[nm].tax = Num(9000)
      /\ scenarioStates[nm].amount = Num(1091000)

\* C8 witness: the example's ISK scenario has been processed in its year.
C8_Witness ==
  /\ ExampleYear
  /\ Processed("ISK")
  /\ ExampleISK(ScenarioNamed(params, "ISK"))
  /\ scenarioYearlyData["ISK"].amount = Num(1000000)

\* C9 as claimed: deferred-gains scenario, capital 1,000,000, one year, zero
\* withdrawal, capitalGainsTax 0.30, development 0.10, inflation 0: the
\* trajectory reports unrealized gain 100,000 and liquidation value 1,070,000
\* (on the grown balance 1,100,000), tax 0, and a balance carried forward of
\* 1,100,000.
C9_DeferredGainsExampleAsClaimed ==
  \A nm \in ScenarioNames(params) :
    (ExampleYear /\ Processed(nm) /\ ExampleVP(ScenarioNamed(params, nm))) =>
      /\ NSub(scenarioYearlyData[nm].amount, params.initialCapital) = Num(100000)
      /\ scenarioYearlyData[nm].liquidValue = Num(1070000)
      /\ scenarioYearlyData[nm].tax = Zero
      /\ scenarioStates[nm].amount = Num(1100000)

\* C9 amended: in that example the trajectory reports the start-of-year
\* balance 1,000,000, hence unrealized gain 0 and liquidation value
\* 1,000,000 (in the yearly record and in the summary), tax 0, and a balance
\* carried forward of 1,100,000; the liquidation value of that carried
\* balance would be 1,070,000 (unrealized gain 100,000), which a one-year
\* trajectory does not report.
C9_DeferredGainsExample ==
  /\ \A nm \in ScenarioNames(params) :
       (ExampleYear /\ Processed(nm) /\ ExampleVP(ScenarioNamed(params, nm))) =>
         /\ scenarioYearlyData[nm].amount = Num(1000000)
         /\ NSub(scenarioYearlyData[nm].amount, params.initialCapital) = Zero
         /\ scenarioYearlyData[nm].liquidValue = Num(1000000)
         /\ scenarioYearlyData[nm].tax = Zero
         /\ scenarioStates[nm].amount = Num(1100000)
         /\ NSub(scenarioStates[nm].amount, params.initialCapital) = Num(100000)
         /\ NSub(scenarioStates[nm].amount,
                 NMul(NSub(scenarioStates[nm].amount, params.initialCapital), Frac(30, 100)))
              = Num(1070000)
  /\ \A k \in DOMAIN results : \A nm \in DOMAIN results[k].summary.scenarios :
       ( /\ params.initialCapital = Num(1000000)
         /\ params.yearsLater = 1
         /\ ExampleVP(ScenarioNamed(params, nm))
         /\ results[k].yearlyData[1].development = Frac(10, 100) )
       => results[k].summary.scenarios[nm].liquidValue = Num(1000000)

\* C9 witness: the example's VP scenario has been processed in its year.
C9_Witness ==
  /\ ExampleYear
  /\ Processed("VP")
  /\ ExampleVP(ScenarioNamed(params, "VP"))
  /\ scenarioYearlyData["VP"].development = Frac(10, 100)

----------------------------------------------------------------------------
(* C10 *)

\* a metric summed over the scenarios of a summary: a missing field counts 0
TotalOf(scenarios, f) ==
  SumOver(DOMAIN scenarios,
          [nm \in DOMAIN scenarios |->
             IF f \in DOMAIN scenarios[nm] THEN scenarios[nm][f] ELSE Zero])

\* trajectory idx (from 0) equals the statistics' median on every metric
AtMedian(idx) ==
  \A f \in {"liquidValue", "realWithdrawal", "accumulatedRealWithdrawal", "maxDrawdown"} :
    TotalOf(results[idx + 1].summary.scenarios, f) = TotalOf(statistics.median.scenarios, f)

\* C10: when some trajectory equals the statistics' median on liquidValue,
\* realWithdrawal, accumulatedRealWithdrawal and maxDrawdown (each summed
\* over the scenarios), findRepresentativeSimulation returns the index of
\* such a trajectory, the first one (its distance is 0).
C10_RepresentativeAtMedian ==
  pc = "done" =>
    \A idx \in 0..(Len(results) - 1) :
      AtMedian(idx) =>
        /\ representativeSimulationId # Null
        /\ AtMedian(representativeSimulationId[1])
        /\ representativeSimulationId[1] <= idx

\* C10 witness: of three trajectories the first is not at the median, a later
\* one is, and that one is returned.
C10_Witness ==
  /\ pc = "done"
  /\ Len(results) = 3
  /\ ~AtMedian(0)
  /\ \E idx \in 1..2 : AtMedian(idx) /\ representativeSimulationId = Some(idx)

----------------------------------------------------------------------------
(* C11 *)

\* C11: findRepresentativeSimulation returns null when the trajectory list is
\* empty or the statistics contain no scenario (the two checks come before
\* the distance loop, so no distance is computed).
C11_NoRepresentativeWithoutInput ==
  pc = "done" =>
    ((results = <<>> \/ DOMAIN statistics.median.scenarios = {})
       => representativeSimulationId = Null)

\* C11 witness: trajectories were produced for an empty scenario list and no
\* representative was chosen.
C11_Witness ==
  /\ pc = "done"
  /\ results # <<>>
  /\ params.scenarios = <<>>
  /\ DOMAIN statistics.median.scenarios = {}
  /\ representativeSimulationId = Null

----------------------------------------------------------------------------
(* C14 *)

\* C14: runSingleSimulation with yearsLater <= 0 fails with an error and
\* never returns a trajectory with no yearly records, for any scenario list
\* (also an empty one).
C14_NoEmptyTrajectory ==
  params.yearsLater <= 0 =>
    \A k \in DOMAIN results : results[k].yearlyData # <<>>

----------------------------------------------------------------------------
(* C15 *)

\* the parameters are malformed: no trajectory to run or no scenario
Malformed(p) == p.simulationCount < 1 \/ p.scenarios = <<>>

\* C15: with simulationCount < 1 or an empty scenario list,
\* runMonteCarloSimulation fails before any trajectory is run and before any
\* progress is reported.
C15_MalformedFailsFast ==
  Malformed(params) =>
    /\ pc \in {"mc", "failed"}
    /\ results = <<>>
    /\ progressLog = <<>>

----------------------------------------------------------------------------
(* C16 *)

\* every number of the records is finite
AllFinite(rec) == \A f \in DOMAIN rec : IsFinite(rec[f])

\* C16: no division divides by zero without a fallback to 0, so no yearly,
\* summary or statistics value is NaN or infinite.
C16_NoNaNOrInfinite ==
  /\ \A r \in ScenarioRecords : AllFinite(r.data)
  /\ \A k \in DOMAIN results :
       /\ IsFinite(results[k].summary.averageInflationRate)
       /\ IsFinite(results[k].summary.averageDevelopment)
       /\ \A nm \in DOMAIN results[k].summary.scenarios :
            AllFinite(results[k].summary.scenarios[nm])
  /\ Aggregated =>
       \A kind \in StatKinds :
         LET value(v) == IF kind = "stdDev" THEN RootSquared(v) ELSE v
         IN  /\ IsFinite(value(statistics[kind].averageInflationRate))
             /\ IsFinite(value(statistics[kind].averageDevelopment))
             /\ \A nm \in DOMAIN statistics[kind].scenarios : \A f \in SummaryFields :
                  IsFinite(value(statistics[kind].scenarios[nm][f]))

----------------------------------------------------------------------------
(* C17 *)

\* the yearly records that exist: of the finished trajectories and of the
\* current one
YearRecords ==
  UNION { {results[k].yearlyData[y] : y \in DOMAIN results[k].yearlyData} : k \in DOMAIN results }
  \cup {yearlyData[y] : y \in DOMAIN yearlyData}

\* C17: the cumulative inflation factor of every yearly record is strictly
\* positive, for any sequence of inflation draws.
C17_CumulativeInflationPositive ==
  \A yr \in YearRecords : NGt(yr.inflation, Zero)

----------------------------------------------------------------------------
(* C12 and C13: progress *)

\* C12: the values passed to onProgress during a run form a non-decreasing
\* sequence and every value lies in [0, 100], for any simulationCount >= 1.
C12_ProgressMonotoneInRange ==
  params.simulationCount >= 1 =>
    /\ \A k \in DOMAIN progressLog :
         NLe(Zero, progressLog[k]) /\ NLe(progressLog[k], Num(100))
    /\ \A k \in 1..(Len(progressLog) - 1) : NLe(progressLog[k], progressLog[k + 1])

\* C12 witness: a finished run reported progress four times, the values below
\* 100 rising.
C12_Witness ==
  /\ pc = "complete"
  /\ Len(progressLog) = 4
  /\ NLt(progressLog[2], progressLog[3])
  /\ NLt(progressLog[3], progressLog[4])

\* the number of calls of onProgress inside the loop after n trajectories
LoopCalls(n) == (n + 99) \div 100

\* C13: runMonteCarloSimulation runs exactly simulationCount trajectories,
\* calls the callback once per 100 trajectories during the loop (after the
\* trajectories of index 0, 100, 200, ...), and calls it exactly once more,
\* with 100, after the last trajectory; that call is the final one.
C13_ProgressCadence ==
  /\ pc \in {"mc", "year", "scenario"} =>
       /\ Len(progressLog) = LoopCalls(simI)
       /\ \A k \in DOMAIN progressLog : progressLog[k] # Num(100)
  /\ pc \in {"complete", "stats", "done"} =>
       /\ Len(results) = params.simulationCount
       /\ Len(progressLog) = LoopCalls(params.simulationCount) + 1
       /\ progressLog[Len(progressLog)] = Num(100)
       /\ \A k \in 1..(Len(progressLog) - 1) :
            progressLog[k] = Frac((k - 1) * 100 * 100, params.simulationCount)

\* C13 witness: a run of more than 200 trajectories finished with three calls
\* inside the loop and the final call.
C13_Witness ==
  /\ pc = "complete"
  /\ Len(results) > 200
  /\ Len(progressLog) = 4
  /\ progressLog[4] = Num(100)

----------------------------------------------------------------------------
(* C18 *)

\* C18: the profit-based part of a year's withdrawal is never negative: in
\* every year of every scenario, withdrawn >= balance * balanceWithdrawalRate,
\* also when the balance fell over the lookback window or
\* profitWithdrawalRate is not positive.
C18_ProfitWithdrawalNeverNegative ==
  \A r \in ScenarioRecords :
    NLe(NMul(r.data.amount, ScenarioNamed(params, r.scen).balanceWithdrawalRate),
        r.data.withdrawn)

\* C18 witness: in the second year of a scenario with a positive
\* profitWithdrawalRate the balance is below the first year's, and the
\* withdrawal is the balance-based part alone.
C18_Witness ==
  /\ pc = "year"
  /\ i = 2
  /\ \E nm \in DOMAIN yearlyData[2].scenarios :
       /\ NGt(ScenarioNamed(params, nm).profitWithdrawalRate, Zero)
       /\ NLt(yearlyData[2].scenarios[nm].amount, yearlyData[1].scenarios[nm].amount)
       /\ yearlyData[2].scenarios[nm].withdrawn =
            NMul(yearlyData[2].scenarios[nm].amount,
                 ScenarioNamed(params, nm).balanceWithdrawalRate)

----------------------------------------------------------------------------
(* C19 *)

\* the trajectories res in the order given by the permutation perm
Reordered(res, perm) == [k \in 1..Len(res) |-> res[perm[k]]]

\* C19: calculateStatistics returns the same statistics for every
\* permutation of the same list of trajectories, so the order in which the
\* trajectories were produced does not affect any mean, standard deviation
\* or percentile.
C19_StatisticsOrderIndependent ==
  pc = "stats" =>
    \A perm \in Permutations(DOMAIN results) :
      calculateStatistics(Reordered(results, perm)) = statistics

\* C19 witness: statistics over three trajectories that are not in ascending
\* order of a field whose percentiles differ.
C19_Witness ==
  /\ pc = "stats"
  /\ Len(results) = 3
  /\ \E nm \in DOMAIN statistics.median.scenarios : \E f \in SummaryFields :
       /\ NLt(results[2].summary.scenarios[nm][f], results[1].summary.scenarios[nm][f])
       /\ NLt(statistics.percentile5.scenarios[nm][f], statistics.median.scenarios[nm][f])
       /\ NLt(statistics.median.scenarios[nm][f], statistics.percentile95.scenarios[nm][f])

----------------------------------------------------------------------------
(* C20 *)

\* the number of trajectories started so far in this run
TrajectoriesStarted == IF pc \in {"year", "scenario"} THEN simI + 1 ELSE simI

\* C20: a running Monte Carlo run can be cancelled: after the early-exit
\* signal is raised the driver starts no further trajectory and returns the
\* trajectories completed so far.
C20_CancelStopsRun ==
  cancelRequested # Null =>
    /\ TrajectoriesStarted <= cancelRequested[1]
    /\ Len(results) <= cancelRequested[1]

----------------------------------------------------------------------------
(* C21 *)

\* the per-scenario yearly records written by deferred-gains (VP) scenarios
DeferredRecords == { r \in ScenarioRecords : ~ScenarioNamed(params, r.scen).isISK }

\* C21 as stated: for a deferred-gains (VP) scenario the liquidation value of
\* every year equals balance - max(0, balance - initialCapital) *
\* capitalGainsTax; when the balance is below the initial capital it equals
\* the balance and never exceeds it.
C21_LiquidValueFloorsGainAsClaimed ==
  \A r \in DeferredRecords :
    LET sc == ScenarioNamed(params, r.scen)
        gain == NSub(r.data.amount, params.initialCapital)
    IN  /\ r.data.liquidValue =
             NSub(r.data.amount, NMul(MathMax(Zero, gain), sc.capitalGainsTax))
        /\ NLe(r.data.liquidValue, r.data.amount)

\* C21: for a deferred-gains (VP) scenario the liquidation value of every
\* year equals balance - (balance - initialCapital) * capitalGainsTax with
\* no floor on the gain; when the balance is below the initial capital and
\* capitalGainsTax is positive the liquidation value exceeds the balance by
\* (initialCapital - balance) * capitalGainsTax.
C21_LiquidValueAllowsNegativeTax ==
  \A r \in DeferredRecords :
    LET sc == ScenarioNamed(params, r.scen)
        gain == NSub(r.data.amount, params.initialCapital)
    IN  /\ r.data.liquidValue = NSub(r.data.amount, NMul(gain, sc.capitalGainsTax))
        /\ (NLt(gain, Zero) /\ NGt(sc.capitalGainsTax, Zero)) =>
             /\ NGt(r.data.liquidValue, r.data.amount)
             /\ NSub(r.data.liquidValue, r.data.amount) =
                  NMul(NNeg(gain), sc.capitalGainsTax)

\* C21 witness: a deferred-gains record of the second year whose balance is
\* below the initial capital and whose liquidation value is above the balance.
C21_Witness ==
  /\ pc = "year"
  /\ i = 2
  /\ \E nm \in DOMAIN yearlyData[2].scenarios :
       /\ ~ScenarioNamed(params, nm).isISK
       /\ NLt(yearlyData[2].scenarios[nm].amount, params.initialCapital)
       /\ NGt(yearlyData[2].scenarios[nm].liquidValue, yearlyData[2].scenarios[nm].amount)

----------------------------------------------------------------------------
(* C22 *)

\* <<k, y, nm>> for every record that scenario nm wrote in year y (from 0)
\* of trajectory k (from 0)
RecordKeys ==
  { <<t[1] - 1, t[2] - 1, t[3]>> :
      t \in { u \in (DOMAIN results) \X (1..MaxYears + 2) \X {"ISK", "VP"} :
                /\ u[2] \in DOMAIN results[u[1]].yearlyData
                /\ u[3] \in DOMAIN results[u[1]].yearlyData[u[2]].scenarios } }
  \cup { <<Len(results), t[1] - 1, t[2]>> :
           t \in { u \in (DOMAIN yearlyData) \X {"ISK", "VP"} :
                     u[2] \in DOMAIN yearlyData[u[1]].scenarios } }
  \cup { <<Len(results), Len(yearlyData), nm>> : nm \in DOMAIN scenarioYearlyData }

\* the profit-based part of the withdrawal of a record
ProfitPart(k, y, nm) ==
  LET rec == RecordOf(k, y, nm)
  IN  NSub(rec.withdrawn, NMul(rec.amount, ScenarioNamed(params, nm).balanceWithdrawalRate))

\* C22: the profit-based withdrawal is 0 in the first simulated year; in
\* year i >= 1 with profitWithdrawalRate > 0 it is
\* max(0, ((balance - B) / L) * profitWithdrawalRate), where
\* L = min(profitLookbackYears, i) and B is the start-of-year balance of year
\* i - L (the initial capital when L = i); it is 0 when L <= 0.
C22_ProfitWithdrawalWindow ==
  \A t \in RecordKeys :
    LET k == t[1]
        y == t[2]
        nm == t[3]
        sc == ScenarioNamed(params, nm)
        L == MinInt(sc.profitLookbackYears, y)
    IN  /\ y = 0 => ProfitPart(k, y, nm) = Zero
        /\ (y >= 1 /\ NGt(sc.profitWithdrawalRate, Zero)) =>
             IF L <= 0
             THEN ProfitPart(k, y, nm) = Zero
             ELSE LET B == RecordOf(k, y - L, nm).amount
                      balance == RecordOf(k, y, nm).amount
                  IN  /\ L = y => B = params.initialCapital
                      /\ ProfitPart(k, y, nm) =
                           MathMax(Zero, NMul(NDiv(NSub(balance, B), Num(L)),
                                              sc.profitWithdrawalRate))

\* C22 witness: in the third year a scenario with a lookback of one year
\* withdraws a positive profit measured from the second year's balance,
\* which is not the initial capital.
C22_Witness ==
  /\ pc = "year"
  /\ i = 3
  /\ \E nm \in DOMAIN yearlyData[3].scenarios :
       /\ ScenarioNamed(params, nm).profitLookbackYears = 1
       /\ yearlyData[2].scenarios[nm].amount # params.initialCapital
       /\ NGt(ProfitPart(0, 2, nm), Zero)
       /\ ProfitPart(0, 2, nm) =
            NMul(NSub(yearlyData[3].scenarios[nm].amount, yearlyData[2].scenarios[nm].amount),
                 ScenarioNamed(params, nm).profitWithdrawalRate)

----------------------------------------------------------------------------
(* C23 *)

\* the balance carried forward from the record rec under the claim's rule
CarriedForward(sc, rec) ==
  LET grown == NMul(rec.amount, NAdd(One, rec.development))
  IN  IF sc.isISK
      THEN MathMax(Zero, NSub(NSub(grown, rec.withdrawn), rec.tax))
      ELSE MathMax(Zero, NSub(grown, rec.withdrawn))

\* C23: after each year the balance carried forward is
\* max(0, balance * (1 + development) - withdrawn - tax) for a notional-tax
\* scenario and max(0, balance * (1 + development) - withdrawn) for a
\* deferred-gains scenario; the deferred-gains tax is accumulated as paid tax
\* but never deducted from the balance.
C23_BalanceCarriedForward ==
  \A t \in RecordKeys :
    LET k == t[1]
        y == t[2]
        nm == t[3]
        sc == ScenarioNamed(params, nm)
        rec == RecordOf(k, y, nm)
    IN  /\ <<k, y + 1, nm>> \in RecordKeys =>
             RecordOf(k, y + 1, nm).amount = CarriedForward(sc, rec)
        /\ (k = Len(results) /\ <<k, y + 1, nm>> \notin RecordKeys
              /\ nm \in DOMAIN scenarioStates) =>
             scenarioStates[nm].amount = CarriedForward(sc, rec)
        /\ rec.paidTax =
             NAdd(IF y = 0 THEN Zero ELSE RecordOf(k, y - 1, nm).paidTax, rec.tax)

\* C23 witness: a deferred-gains scenario paid a positive tax in the first
\* year and carries a positive balance into the second year that is the
\* grown balance less the withdrawal alone; a notional-tax scenario carries
\* a positive balance that is also less its positive tax.
C23_Witness ==
  /\ pc = "year"
  /\ i = 2
  /\ \E nm \in DOMAIN yearlyData[2].scenarios :
       LET rec == yearlyData[1].scenarios[nm]
       IN  /\ ~ScenarioNamed(params, nm).isISK
           /\ NGt(rec.tax, Zero)
           /\ NGt(yearlyData[2].scenarios[nm].amount, Zero)
           /\ yearlyData[2].scenarios[nm].amount =
                NSub(NMul(rec.amount, NAdd(One, rec.development)), rec.withdrawn)
           /\ yearlyData[2].scenarios[nm].paidTax = NAdd(rec.tax, yearlyData[2].scenarios[nm].tax)
  /\ \E nm \in DOMAIN yearlyData[2].scenarios :
       LET rec == yearlyData[1].scenarios[nm]
       IN  /\ ScenarioNamed(params, nm).isISK
           /\ NGt(rec.tax, Zero)
           /\ NGt(yearlyData[2].scenarios[nm].amount, Zero)
           /\ yearlyData[2].scenarios[nm].amount =
                NSub(NSub(NMul(rec.amount, NAdd(One, rec.development)), rec.withdrawn), rec.tax)

----------------------------------------------------------------------------
(* C24 *)

\* the values that scenario nm recorded under field f in the years of yd
YearlyValues(yd, nm, f) == [y \in DOMAIN yd |-> yd[y].scenarios[nm][f]]

----------------------------------------------------------------------------
(* C25 *)

\* call c of runSimulation has started and has not ended
InProgress(c) == calls[c].pc \in {"awaiting", "resolved", "rejected"}

----------------------------------------------------------------------------
(* C26 *)

\* C26: for any interleaving of runSimulation calls (the store does not
\* reject a call made while a run is in progress), isRunning is true
\* whenever at least one simulation worker started by runSimulation has not
\* yet finished.
C26_RunningWhileAnyWorkerRuns ==
  (\E c \in Calls : calls[c].worker = "running") => isRunning

----------------------------------------------------------------------------
(* C27 *)

\* C27: after any sequence of addRecord, updateTitle, removeRecord and
\* clearAll on the history store, the record list holds at most 100 records
\* ordered newest first (the later a record was added, the earlier its
\* place); adding a record to a full list keeps the new record and drops the
\* oldest one.
C27_HistoryBoundedNewestFirst ==
  /\ [](/\ Len(records) <= 100
        /\ \A j, k \in DOMAIN records : j < k => records[j].nth > records[k].nth)
  /\ [][(added' = added + 1 /\ Len(records) = 100) =>
          /\ Len(records') = 100
          /\ records'[1].nth = added + 1
          /\ \A k \in 2..100 : records'[k] = records[k - 1]]_vars

\* C27 witness: a record was added to a full list: the list holds 100
\* records, the newest is the 101st added and the oldest the 2nd.
C27_Witness ==
  /\ Len(records) = 100
  /\ added = 101
  /\ records[1].nth = 101
  /\ records[100].nth = 2

----------------------------------------------------------------------------
(* C28 *)

\* no animation-frame or timeout recheck is pending
NothingPending(L) ==
  L.rafId = Null /\ L.timeoutId = Null /\ L.frames = {} /\ L.timers = {}

\* C28: the lazy chart component calls renderChart only when the chart is
\* visible, its container has non-zero width and height, and either the data
\* is dirty or the container size differs from the last rendered size;
\* immediately after a render dataDirty is false, lastSize is the rendered
\* size, and no animation-frame or timeout recheck remains pending.
C28_RenderOnlyWhenNeeded ==
  /\ [](lazyChart.rendered # Null =>
          LET r == lazyChart.rendered[1]
          IN  /\ r.isVisible
              /\ r.width # 0
              /\ r.height # 0
              /\ r.dataDirty \/ r.sizeChanged)
  /\ [][lazyChart'.renders # lazyChart.renders =>
          /\ ~lazyChart'.dataDirty
          /\ lazyChart'.lastSize = container'
          /\ lazyChart'.lastSize = <<lazyChart'.rendered[1].width, lazyChart'.rendered[1].height>>
          /\ NothingPending(lazyChart')]_vars

\* C28 witness: a recheck was scheduled while the container had no size,
\* the chart has been rendered twice since, the second time for a changed
\* size with clean data, and nothing is pending.
C28_Witness ==
  /\ lazyChart.renders = 2
  /\ lazyChart.handles = 2
  /\ lazyChart.rendered # Null
  /\ lazyChart.rendered[1].sizeChanged
  /\ ~lazyChart.rendered[1].dataDirty
  /\ NothingPending(lazyChart)

----------------------------------------------------------------------------
(* C29 *)

\* the chart is mounted and visible, its data is dirty and its container
\* has a size: it awaits a render
AwaitsRender ==
  /\ lazyChart.mounted
  /\ lazyChart.isVisible
  /\ lazyChart.dataDirty
  /\ container[1] # 0
  /\ container[2] # 0

\* C29: if the chart is visible with dirty data while its container has zero
\* size, and the container later acquires a non-zero size, the chart is
\* eventually rendered by the scheduled recheck, without needing a further
\* resize, visibility or data-change event: it does not await a render
\* forever.
C29_RecheckRendersEventually == []<>(~AwaitsRender)

----------------------------------------------------------------------------
(* C30 *)

\* the matrix has one row and one column per asset, is symmetric and has
\* 1.0 on its diagonal
WellFormedMatrix(matrix, n) ==
  /\ Len(matrix) = n
  /\ \A r \in 1..n : Len(matrix[r]) = n
  /\ \A r \in 1..n : matrix[r][r] = One
  /\ \A r, c \in 1..n : matrix[r][c] = matrix[c][r]

\* C30: after any sequence of addAsset and removeAsset starting from the
\* store's initial portfolio, neither operation raises an error, at least
\* one asset remains, and the correlation matrix is square with one row and
\* column per asset, symmetric, with 1.0 on the diagonal.
C30_PortfolioStaysWellFormed ==
  lastOp # "none" =>
    /\ ~raised
    /\ Len(portfolio.assets) >= 1
    /\ WellFormedMatrix(portfolio.correlationMatrix, Len(portfolio.assets))

====
